---------------------------- MODULE Spec2Model ----------------------------
(***************************************************************************)
(* StockScope fundamentals engine: backend/services/fundamentals.py with   *)
(* the models of backend/models/fundamentals.py.                           *)
(*                                                                         *)
(* Numbers.  Python floats are modelled as exact rationals <<n, d>> with   *)
(* d > 0 in lowest terms; NaN is the pair <<0, 0>>; Python's None is the   *)
(* empty tuple <<>>.  Rounding of IEEE doubles is not modelled.            *)
(*                                                                         *)
(* Tables.  A pandas DataFrame as yfinance returns it is a record          *)
(*   [cols  : sequence of period dates (column order),                     *)
(*    index : sequence of line-item labels (row order),                    *)
(*    cell  : [label -> [date -> number or NaN]]].                         *)
(* A period date is the number of the quarter (or year) it closes, so a    *)
(* larger date is a more recent period.  Column labels are Timestamps in   *)
(* the program; their string forms and time-of-day are not modelled.       *)
(*                                                                         *)
(* Truth value of a column slice.  _safe_sum tests `not periods`, and its  *)
(* callers hand it slices of DataFrame.columns.  For the List its          *)
(* signature declares the test is false exactly when the list is empty;    *)
(* for a pandas Index the library raises ValueError ("The truth value of   *)
(* a DatetimeIndex is ambiguous").  Which of the two happens is decided by *)
(* the library, outside this source: index_bool holds the outcome, fixed   *)
(* for a run, and both outcomes are explored.                              *)
(***************************************************************************)
EXTENDS Integers, Sequences, FiniteSets, TLC

VARIABLES
    provider, \* ticker -> the statements the provider has on file for it
    now,      \* the wall clock, datetime.now(), in half hours
    cache,    \* FundamentalsService.cache: ticker -> [data, timestamp]
    ret,      \* the FundamentalsTTM the last call of compute_ttm_metrics returned
    raised,   \* the property accesses that raised in the fetch behind ret
    growth,   \* the last direct call of _calculate_growth_rate: arguments, result
    index_bool, \* what bool() of a column slice does: "len" or "raises"
    series,   \* the last call of compute_quarterly_series: ticker, raised, result
    full,     \* the last direct call of get_fundamentals_data: ticker, raised, data
    ttl_cache, \* core.cache._fundamentals_cache: entries, least recently used first
    calls,    \* how often the function wrapped by @cached has been invoked
    answer,   \* the last call of a @cached function: key, value, hit
    uses,     \* the keys @cached functions were called with, latest call last
    compacted, \* the last direct call of compact: argument, result
    response, \* the last response of a router endpoint
    looked,   \* the last direct call of _safe_get: table, field, period, value
    fetching, \* <<ticker>> while a get_fundamentals_data is asking the provider
    accessed, \* the statements the last miss asked the provider for, in order
    running,  \* thread -> where its call of a @cached function stands
    origins,  \* key of a TTL entry -> when the provider was asked for what it holds
    last_request \* the last request to the cached pipeline, or the clearing of the cache

(* What the operations on FundamentalsService and _calculate_growth_rate    *)
(* leave alone                                                              *)
wrapper == <<ttl_cache, calls, answer, uses>>

(* What only the calls of the helpers on their own, and a fetch followed    *)
(* access by access, change                                                *)
pipeline == <<origins, last_request>>

further == <<looked, fetching, accessed, running, pipeline>>

beyond == <<series, full, wrapper, compacted, response, further>>

vars == <<provider, now, cache, ret, raised, growth, index_bool, beyond>>

-----------------------------------------------------------------------------
(* Exact arithmetic standing for Python float arithmetic *)

None == <<>>

NaN == <<0, 0>>

Abs(n) == IF n < 0 THEN -n ELSE n

RECURSIVE GCD(_, _)
GCD(a, b) == IF b = 0 THEN a ELSE GCD(b, a % b)

Norm(n, d) ==
    LET s == IF d < 0 THEN -1 ELSE 1
        g == GCD(Abs(n), Abs(d))
    IN  <<(s * n) \div g, (s * d) \div g>>

R(n) == <<n, 1>>

RAdd(x, y) == Norm(x[1] * y[2] + y[1] * x[2], x[2] * y[2])

RSub(x, y) == Norm(x[1] * y[2] - y[1] * x[2], x[2] * y[2])

RMul(x, y) == Norm(x[1] * y[1], x[2] * y[2])

RDiv(x, y) == Norm(x[1] * y[2], x[2] * y[1])

RAbs(x) == <<Abs(x[1]), x[2]>>

RLess(x, y) == x[1] * y[2] < y[1] * x[2]

IsZero(x) == x[1] = 0

(* pd.notna(value) and value != 0, the validity test of _safe_get *)
NotNa(v) == v[2] # 0

-----------------------------------------------------------------------------
(* Line-item labels and str.lower() on them *)

Lower(s) ==
    CASE s = "Total Revenue" -> "total revenue"
      [] s = "Operating Revenue" -> "operating revenue"
      [] s = "Revenue" -> "revenue"
      [] s = "Net Sales" -> "net sales"
      [] s = "Sales" -> "sales"
      [] s = "Operating Income" -> "operating income"
      [] s = "Total Operating Income As Reported" -> "total operating income as reported"
      [] s = "EBIT" -> "ebit"
      [] s = "Operating Cash Flow" -> "operating cash flow"
      [] s = "Cash Flow From Operating Activities" -> "cash flow from operating activities"
      [] s = "Total Cash From Operating Activities" -> "total cash from operating activities"
      [] s = "Capital Expenditures" -> "capital expenditures"
      [] s = "Capital Expenditure" -> "capital expenditure"
      [] s = "Capex" -> "capex"
      [] s = "Property Plant Equipment Investments" -> "property plant equipment investments"
      [] s = "Net PPE Purchase And Sale" -> "net ppe purchase and sale"
      [] s = "Depreciation And Amortization" -> "depreciation and amortization"
      [] s = "Depreciation" -> "depreciation"
      [] s = "Amortization" -> "amortization"
      [] s = "Reconciled Depreciation" -> "reconciled depreciation"
      [] s = "Current Debt" -> "current debt"
      [] s = "Long Term Debt" -> "long term debt"
      [] s = "Total Debt" -> "total debt"
      [] s = "Cash And Cash Equivalents" -> "cash and cash equivalents"
      [] OTHER -> s

field_mappings(field) ==
    CASE field = "Total Revenue" ->
           <<"Total Revenue", "Operating Revenue", "Revenue", "Net Sales", "Sales">>
      [] field = "Operating Income" ->
           <<"Operating Income", "Total Operating Income As Reported",
             "Operating Revenue", "EBIT">>
      [] field = "Operating Cash Flow" ->
           <<"Operating Cash Flow", "Cash Flow From Operating Activities",
             "Total Cash From Operating Activities">>
      [] field = "Capital Expenditures" ->
           <<"Capital Expenditures", "Capital Expenditure", "Capex",
             "Property Plant Equipment Investments", "Net PPE Purchase And Sale">>
      [] field = "Depreciation And Amortization" ->
           <<"Depreciation And Amortization", "Depreciation", "Amortization",
             "Reconciled Depreciation">>
      [] OTHER -> <<>>

-----------------------------------------------------------------------------
(* DataFrames *)

Range(s) == {s[i] : i \in 1..Len(s)}

EmptyFrame == [cols |-> <<>>, index |-> <<>>, cell |-> <<>>]

(* DataFrame.empty: some axis has length 0 *)
IsEmpty(df) == Len(df.cols) = 0 \/ Len(df.index) = 0

RECURSIVE SortedDesc(_)
SortedDesc(S) ==
    IF S = {} THEN <<>>
    ELSE LET m == CHOOSE x \in S : \A y \in S : y <= x
         IN  <<m>> \o SortedDesc(S \ {m})

(* df.reindex(sorted(df.columns, reverse=True), axis=1) *)
Reindexed(df) == [df EXCEPT !.cols = SortedDesc(Range(df.cols))]

(* columns[:n] *)
Head_n(s, n) == SubSeq(s, 1, IF n < Len(s) THEN n ELSE Len(s))

-----------------------------------------------------------------------------
(* FundamentalsService helpers *)

(* The column _safe_get reads: the one whose date equals the requested      *)
(* period, else (the "fallback") the first column of the table.             *)
PeriodKey(df, period) ==
    IF period \in Range(df.cols) THEN period ELSE df.cols[1]

(* [field] + field_mappings[field] *)
FieldVariants(field) == <<field>> \o field_mappings(field)

(* The rows one variant makes _safe_get read, in the order it reads them:   *)
(* the exact label if the index has it, then every index label equal to    *)
(* the variant ignoring case.                                               *)
VariantRows(df, variant) ==
    (IF variant \in Range(df.index) THEN <<variant>> ELSE <<>>)
    \o SelectSeq(df.index, LAMBDA idx : Lower(idx) = Lower(variant))

RECURSIVE CandidateRows(_, _)
CandidateRows(df, variants) ==
    IF variants = <<>> THEN <<>>
    ELSE VariantRows(df, Head(variants)) \o CandidateRows(df, Tail(variants))

RECURSIVE FirstValid(_, _, _)
FirstValid(df, rows, key) ==
    IF rows = <<>> THEN None
    ELSE LET value == df.cell[Head(rows)][key]
         IN  IF NotNa(value) /\ ~IsZero(value) THEN value
             ELSE FirstValid(df, Tail(rows), key)

_safe_get(df, field, period) ==
    IF IsEmpty(df) THEN None
    ELSE FirstValid(df, CandidateRows(df, FieldVariants(field)), PeriodKey(df, period))

(* The values _safe_sum adds up: one per period that is a column of df and  *)
(* for which _safe_get finds a valid value.                                 *)
RECURSIVE SummedValues(_, _, _)
SummedValues(df, field, periods) ==
    IF periods = <<>> THEN <<>>
    ELSE LET period == Head(periods)
             rest == SummedValues(df, field, Tail(periods))
         IN  IF period \notin Range(df.cols) THEN rest
             ELSE LET value == _safe_get(df, field, period)
                  IN  IF value # None THEN <<value>> \o rest ELSE rest

RECURSIVE RSum(_)
RSum(vs) == IF vs = <<>> THEN R(0) ELSE RAdd(Head(vs), RSum(Tail(vs)))

(* The exception `not periods` raises when the slice is a pandas Index; it  *)
(* leaves _safe_sum in place of a return value.                             *)
ValueError == <<"ValueError">>

(* Mutant: the running total is returned even when no value was valid *)
_safe_sum_zero(df, field, periods) ==
    IF IsEmpty(df) THEN None
    ELSE IF index_bool = "raises" THEN ValueError
    ELSE IF periods = <<>> THEN None
    ELSE RSum(SummedValues(df, field, periods))

_safe_sum(df, field, periods) ==
    IF IsEmpty(df) THEN None
    ELSE IF index_bool = "raises" THEN ValueError
    ELSE IF periods = <<>> THEN None
    ELSE LET vs == SummedValues(df, field, periods)
         IN  IF Len(vs) > 0 THEN RSum(vs) ELSE None

GrowthCap == 10

(* Mutant: no cap on extreme growth rates *)
_calculate_growth_rate_uncapped(current, previous, multiplier) ==
    IF current = None \/ previous = None THEN None
    ELSE IF IsZero(previous) THEN None
    ELSE RMul(RSub(RDiv(current, previous), R(1)), multiplier)

_calculate_growth_rate(current, previous, multiplier) ==
    IF current = None \/ previous = None THEN None
    ELSE IF IsZero(previous) THEN None
    ELSE LET growth_rate == RMul(RSub(RDiv(current, previous), R(1)), multiplier)
         IN  IF RLess(R(GrowthCap), RAbs(growth_rate)) THEN None ELSE growth_rate

_get_empty_growth ==
    [revenue_growth_yoy |-> None, fcf_growth_yoy |-> None,
     ebitda_growth_yoy |-> None, margin_growth_yoy_pp |-> None]

(* multiplier ** 0.5 for the two multipliers the code uses, 1 and 4 *)
SqrtOf(multiplier) == IF multiplier = R(4) THEN R(2) ELSE R(1)

GrowthFor(income, cashflow, current_period, comparison_period, multiplier) ==
    LET current_revenue == _safe_get(income, "Total Revenue", current_period)
        prev_revenue == _safe_get(income, "Total Revenue", comparison_period)
        current_cf == _safe_get(cashflow, "Operating Cash Flow", current_period)
        current_capex == _safe_get(cashflow, "Capital Expenditures", current_period)
        prev_cf == _safe_get(cashflow, "Operating Cash Flow", comparison_period)
        prev_capex == _safe_get(cashflow, "Capital Expenditures", comparison_period)
        current_oi == _safe_get(income, "Operating Income", current_period)
        prev_oi == _safe_get(income, "Operating Income", comparison_period)
        current_depreciation ==
            _safe_get(income, "Depreciation And Amortization", current_period)
        prev_depreciation ==
            _safe_get(income, "Depreciation And Amortization", comparison_period)
        add_back == current_depreciation # None /\ prev_depreciation # None
        current_ebitda ==
            IF add_back THEN RAdd(current_oi, RAbs(current_depreciation)) ELSE current_oi
        prev_ebitda ==
            IF add_back THEN RAdd(prev_oi, RAbs(prev_depreciation)) ELSE prev_oi
    IN  [revenue_growth_yoy |->
            _calculate_growth_rate(current_revenue, prev_revenue, multiplier),
         fcf_growth_yoy |->
            IF ~IsEmpty(cashflow) /\ Len(cashflow.cols) >= 2
               /\ current_cf # None /\ current_capex # None
               /\ prev_cf # None /\ prev_capex # None
            THEN _calculate_growth_rate(RAdd(current_cf, current_capex),
                                        RAdd(prev_cf, prev_capex), multiplier)
            ELSE None,
         ebitda_growth_yoy |->
            IF current_oi # None /\ prev_oi # None
            THEN _calculate_growth_rate(current_ebitda, prev_ebitda, multiplier)
            ELSE None,
         margin_growth_yoy_pp |->
            IF current_revenue # None /\ prev_revenue # None
               /\ current_oi # None /\ prev_oi # None
            THEN RMul(RSub(RDiv(current_oi, current_revenue),
                           RDiv(prev_oi, prev_revenue)),
                      SqrtOf(multiplier))
            ELSE None]

(* Mutant: quarterly data always compared with the previous quarter *)
_calculate_growth_rates_sequential(income, cashflow, is_quarterly) ==
    IF IsEmpty(income) \/ Len(income.cols) < 2 THEN _get_empty_growth
    ELSE GrowthFor(income, cashflow, income.cols[1], income.cols[2],
                   IF is_quarterly THEN R(4) ELSE R(1))

_calculate_growth_rates(income, cashflow, is_quarterly) ==
    IF IsEmpty(income) \/ Len(income.cols) < 2 THEN _get_empty_growth
    ELSE LET num_periods == Len(income.cols)
         IN  IF is_quarterly /\ num_periods >= 5
             THEN GrowthFor(income, cashflow, income.cols[1], income.cols[5], R(1))
             ELSE IF is_quarterly
             THEN GrowthFor(income, cashflow, income.cols[1], income.cols[2], R(4))
             ELSE GrowthFor(income, cashflow, income.cols[1], income.cols[2], R(1))

_calculate_debt_metrics(balance) ==
    IF IsEmpty(balance)
    THEN [total_debt |-> None, cash_and_equivalents |-> None, net_debt |-> None]
    ELSE LET most_recent == balance.cols[1]
             st == _safe_get(balance, "Current Debt", most_recent)
             lt == _safe_get(balance, "Long Term Debt", most_recent)
             short_term_debt == IF st = None THEN R(0) ELSE st
             long_term_debt == IF lt = None THEN R(0) ELSE lt
             total_debt ==
                 IF ~IsZero(short_term_debt) \/ ~IsZero(long_term_debt)
                 THEN RAdd(short_term_debt, long_term_debt) ELSE None
             cash == _safe_get(balance, "Cash And Cash Equivalents", most_recent)
         IN  [total_debt |-> total_debt,
              cash_and_equivalents |-> cash,
              net_debt |-> IF total_debt # None /\ cash # None
                           THEN RSub(total_debt, cash) ELSE None]

(* Mutant: the margin divides without looking at the revenue *)
Margin_unguarded(numerator_ttm, revenue_ttm) ==
    IF numerator_ttm # None THEN RDiv(numerator_ttm, revenue_ttm) ELSE None

(* A margin of _calculate_ttm_metrics: computed under                       *)
(* `if revenue_ttm and revenue_ttm != 0` for a numerator that is not None   *)
Margin(numerator_ttm, revenue_ttm) ==
    IF revenue_ttm # None /\ ~IsZero(revenue_ttm) /\ numerator_ttm # None
    THEN RDiv(numerator_ttm, revenue_ttm) ELSE None

_get_empty_ttm(insufficient_data) ==
    [revenue_ttm |-> None, operating_income_ttm |-> None,
     operating_margin_ttm |-> None, fcf_ttm |-> None, fcf_margin_ttm |-> None,
     ebitda_ttm |-> None, revenue_growth_yoy |-> None, fcf_growth_yoy |-> None,
     ebitda_growth_yoy |-> None, margin_growth_yoy_pp |-> None,
     total_debt |-> None, cash_and_equivalents |-> None, net_debt |-> None,
     insufficient_data |-> insufficient_data]

(* recent_periods of _calculate_ttm_metrics *)
RecentPeriods(income, is_quarterly) ==
    LET num_periods == Len(income.cols)
    IN  IF is_quarterly /\ num_periods >= 4 THEN Head_n(income.cols, 4)
        ELSE IF is_quarterly /\ num_periods >= 2 THEN Head_n(income.cols, num_periods)
        ELSE Head_n(income.cols, 1)

(* ttm_multiplier of _calculate_ttm_metrics *)
TtmMultiplier(income, is_quarterly) ==
    LET num_periods == Len(income.cols)
    IN  IF is_quarterly /\ num_periods >= 4 THEN R(1)
        ELSE IF is_quarterly /\ num_periods >= 2 THEN Norm(4, num_periods)
        ELSE IF is_quarterly THEN R(4)
        ELSE R(1)

(* Mutant: a year and a quarter of columns are asked for *)
HasSufficientData_five(income, is_quarterly) ==
    IF is_quarterly THEN Len(income.cols) >= 5 ELSE Len(income.cols) >= 1

(* has_sufficient_data of _calculate_ttm_metrics *)
HasSufficientData(income, is_quarterly) ==
    IF is_quarterly THEN Len(income.cols) >= 2 ELSE Len(income.cols) >= 1

_calculate_ttm_metrics(income, cashflow, balance, is_quarterly) ==
    IF IsEmpty(income) THEN _get_empty_ttm(FALSE)
    ELSE
    LET recent_periods == RecentPeriods(income, is_quarterly)
        ttm_multiplier == TtmMultiplier(income, is_quarterly)
        revenue_sum == _safe_sum(income, "Total Revenue", recent_periods)
        operating_income_sum == _safe_sum(income, "Operating Income", recent_periods)
    IN  (* The except clause: ValueError out of _safe_sum, or TypeError from   *)
        (* None * ttm_multiplier                                               *)
        IF revenue_sum = ValueError THEN _get_empty_ttm(FALSE)
        ELSE IF revenue_sum = None \/ operating_income_sum = None
        THEN _get_empty_ttm(FALSE)
        ELSE
        LET revenue_ttm == RMul(revenue_sum, ttm_multiplier)
            operating_income_ttm == RMul(operating_income_sum, ttm_multiplier)
            cf_periods ==
                Head_n(recent_periods,
                       IF Len(recent_periods) < Len(cashflow.cols)
                       THEN Len(recent_periods) ELSE Len(cashflow.cols))
            operating_cf == _safe_sum(cashflow, "Operating Cash Flow", cf_periods)
            capex == _safe_sum(cashflow, "Capital Expenditures", cf_periods)
            fcf_ttm ==
                IF ~IsEmpty(cashflow) /\ operating_cf # None /\ capex # None
                THEN RMul(RAdd(operating_cf, capex), ttm_multiplier) ELSE None
            depreciation ==
                _safe_sum(income, "Depreciation And Amortization", recent_periods)
            ebitda_ttm ==
                IF depreciation # None
                THEN RMul(RAdd(operating_income_ttm, RAbs(depreciation)),
                          IF is_quarterly THEN ttm_multiplier ELSE R(1))
                ELSE None
            growth_data == _calculate_growth_rates(income, cashflow, is_quarterly)
            debt_metrics == _calculate_debt_metrics(balance)
        IN  [revenue_ttm |-> revenue_ttm,
             operating_income_ttm |-> operating_income_ttm,
             operating_margin_ttm |-> Margin(operating_income_ttm, revenue_ttm),
             fcf_ttm |-> fcf_ttm,
             fcf_margin_ttm |-> Margin(fcf_ttm, revenue_ttm),
             ebitda_ttm |-> ebitda_ttm,
             revenue_growth_yoy |-> growth_data.revenue_growth_yoy,
             fcf_growth_yoy |-> growth_data.fcf_growth_yoy,
             ebitda_growth_yoy |-> growth_data.ebitda_growth_yoy,
             margin_growth_yoy_pp |-> growth_data.margin_growth_yoy_pp,
             total_debt |-> debt_metrics.total_debt,
             cash_and_equivalents |-> debt_metrics.cash_and_equivalents,
             net_debt |-> debt_metrics.net_debt,
             insufficient_data |-> ~HasSufficientData(income, is_quarterly)]

(* One entry of the list _calculate_series_data returns *)
SeriesItem(income, cashflow, is_quarterly, period) ==
    LET revenue == _safe_get(income, "Total Revenue", period)
        operating_income == _safe_get(income, "Operating Income", period)
        operating_cf == _safe_get(cashflow, "Operating Cash Flow", period)
        capex == _safe_get(cashflow, "Capital Expenditures", period)
        fcf == IF ~IsEmpty(cashflow) /\ period \in Range(cashflow.cols)
                  /\ operating_cf # None /\ capex # None
               THEN RAdd(operating_cf, capex) ELSE None
    IN  [period |-> period,
         revenue |-> revenue,
         operating_income |-> operating_income,
         operating_margin |->
             IF revenue # None /\ operating_income # None
             THEN RDiv(operating_income, revenue) ELSE None,
         fcf |-> fcf,
         fcf_margin |->
             IF revenue # None /\ fcf # None THEN RDiv(fcf, revenue) ELSE None,
         is_quarterly |-> is_quarterly]

SeriesLimit == 8

_calculate_series_data(income, cashflow, balance, is_quarterly) ==
    IF IsEmpty(income) THEN <<>>
    ELSE LET num_periods ==
                 IF SeriesLimit < Len(income.cols) THEN SeriesLimit ELSE Len(income.cols)
         IN  [i \in 1..num_periods |->
                 SeriesItem(income, cashflow, is_quarterly, income.cols[i])]

_get_empty_result(ticker, now_) ==
    [ticker |-> ticker,
     ttm |-> _get_empty_ttm(FALSE),
     series |-> <<>>,
     metadata |-> [data_type |-> "unknown", periods_available |-> 0,
                   last_updated |-> now_, insufficient_data |-> TRUE]]

SortIfAny(df) == IF IsEmpty(df) THEN df ELSE Reindexed(df)

_calculate_comprehensive_metrics(ticker, income, cashflow, balance, is_quarterly, now_) ==
    LET inc == SortIfAny(income)
        cf == SortIfAny(cashflow)
        bal == SortIfAny(balance)
        num_periods == IF IsEmpty(inc) THEN 0 ELSE Len(inc.cols)
    IN  [ticker |-> ticker,
         ttm |-> _calculate_ttm_metrics(inc, cf, bal, is_quarterly),
         series |-> _calculate_series_data(inc, cf, bal, is_quarterly),
         metadata |-> [data_type |-> IF is_quarterly THEN "quarterly" ELSE "annual",
                       periods_available |-> num_periods,
                       last_updated |-> now_,
                       insufficient_data |-> num_periods < 2]]

-----------------------------------------------------------------------------
(* The provider (yfinance.Ticker): the statements it may hold for a ticker. *)
(* A response gives the six tables get_fundamentals_data reads and the set  *)
(* of properties whose access raises.                                       *)

MaxPeriods == 8

MaxHoles == 1

MaxAnnual == 2

Quarters(n) == [i \in 1..n |-> n + 1 - i]

(* Revenue of the quarter d; quarters 1..8 are the scenario of spec section 8 *)
RevenueAt(d) ==
    IF d <= 8 THEN <<100, 110, 105, 120, 130, 125, 140, 150>>[d] ELSE 150 + 5 * (d - 8)

BaseValue(label, d) ==
    CASE Lower(label) = "total revenue" -> RevenueAt(d)
      [] label = "Operating Revenue" -> 90 + d
      [] label = "Revenue" -> 80 + d
      [] label = "Operating Income" -> 20 + 3 * d
      [] label = "EBIT" -> 18 + d
      [] label = "Depreciation And Amortization" -> 0 - (4 + d)
      [] label = "Reconciled Depreciation" -> 6
      [] Lower(label) = "operating cash flow" -> 30 + 2 * d
      [] label = "Capital Expenditures" -> 0 - (10 + d)
      [] label = "Capital Expenditure" -> 0 - 9
      [] label = "Current Debt" -> 40
      [] label = "Long Term Debt" -> 60
      [] label = "Total Debt" -> 500
      [] label = "Cash And Cash Equivalents" -> 25
      [] OTHER -> 1

(* A table with the base values, except that the cells of row `row` at the  *)
(* dates in `holes` hold `bad` (NaN or 0).                                  *)
Frame(cols, index, row, holes, bad) ==
    [cols |-> cols, index |-> index,
     cell |-> [l \in Range(index) |->
                 [d \in Range(cols) |->
                     IF l = row /\ d \in holes THEN bad ELSE R(BaseValue(l, d))]]]

Plain(cols, index) == Frame(cols, index, "", {}, NaN)

IncomeIndex == <<"Total Revenue", "Operating Income", "Depreciation And Amortization">>

CashflowIndex == <<"Operating Cash Flow", "Capital Expenditures">>

BalanceIndex == <<"Current Debt", "Long Term Debt", "Cash And Cash Equivalents">>

Response(qi, qc, qb, ai, ac, ab, raises) ==
    [quarterly_financials |-> qi, quarterly_cashflow |-> qc,
     quarterly_balance_sheet |-> qb, financials |-> ai, cashflow |-> ac,
     balance_sheet |-> ab, raises |-> raises]

Properties ==
    {"quarterly_financials", "quarterly_cashflow", "quarterly_balance_sheet",
     "financials", "cashflow", "balance_sheet"}

(* n quarters and m years of complete statements *)
Complete(n, m) ==
    Response(Plain(Quarters(n), IncomeIndex), Plain(Quarters(n), CashflowIndex),
             Plain(Quarters(n), BalanceIndex), Plain(Quarters(m), IncomeIndex),
             Plain(Quarters(m), CashflowIndex), Plain(Quarters(m), BalanceIndex), {})

HoleSets(n) == {H \in SUBSET (1..n) : Cardinality(H) <= MaxHoles /\ H # {}}

BadCells == {NaN, R(0)}

(* Invalid observations in one line item of the n quarterly statements *)
HolesIn(n) ==
    {[Complete(n, 1) EXCEPT
        !.quarterly_financials = Frame(Quarters(n), IncomeIndex, row, H, bad)] :
        row \in Range(IncomeIndex), H \in HoleSets(n), bad \in BadCells}
    \cup
    {[Complete(n, 1) EXCEPT
        !.quarterly_cashflow = Frame(Quarters(n), CashflowIndex, row, H, bad)] :
        row \in Range(CashflowIndex), H \in HoleSets(n), bad \in BadCells}

(* Invalid revenue observations in a long history *)
RevenueHolesIn(n) ==
    {[Complete(n, 1) EXCEPT
        !.quarterly_financials =
            Frame(Quarters(n), IncomeIndex, "Total Revenue", H, bad)] :
        H \in HoleSets(n), bad \in BadCells}

WithHoles == HolesIn(4) \cup HolesIn(5) \cup RevenueHolesIn(MaxPeriods)

(* Line items missing from, or named differently in, the income statement *)
IncomeIndexes ==
    {<<>>, <<"Total Revenue">>, <<"Operating Income">>,
     <<"Total Revenue", "Operating Income">>,
     <<"Operating Income", "Depreciation And Amortization">>,
     <<"total revenue", "Operating Income">>,
     <<"Operating Revenue", "Depreciation And Amortization">>,
     <<"Revenue", "Total Revenue", "EBIT", "Reconciled Depreciation">>}

WithIndex ==
    {[Complete(n, 1) EXCEPT !.quarterly_financials = Plain(Quarters(n), index)] :
        n \in {4, MaxPeriods}, index \in IncomeIndexes}

(* Cash-flow statements covering other periods than the income statement *)
CashflowColsIn(n) ==
    {[Complete(n, 1) EXCEPT !.quarterly_cashflow = Plain(cols, CashflowIndex)] :
        cols \in {Quarters(k) : k \in 0..3} \cup {<<n>>, <<n, 1>>}}

WithCashflowCols == CashflowColsIn(4) \cup CashflowColsIn(5)

(* Balance sheets: each line item absent, NaN, zero or valid *)
BalanceCells == BadCells \cup {None}

Balance(debt, long, cash, extra) ==
    LET index == SelectSeq(BalanceIndex,
                     LAMBDA l : CASE l = "Current Debt" -> debt # None
                                  [] l = "Long Term Debt" -> long # None
                                  [] OTHER -> cash # None) \o extra
        given(l) == CASE l = "Current Debt" -> debt
                      [] l = "Long Term Debt" -> long
                      [] l = "Cash And Cash Equivalents" -> cash
                      [] OTHER -> R(1)
    IN  [cols |-> Quarters(2), index |-> index,
         cell |-> [l \in Range(index) |->
                     [d \in {1, 2} |-> IF d = 2 /\ l \in Range(BalanceIndex)
                                       THEN given(l) ELSE R(BaseValue(l, d))]]]

WithBalance ==
    {[Complete(4, 1) EXCEPT !.quarterly_balance_sheet = Balance(debt, long, cash, extra)] :
        debt \in BalanceCells \cup {R(40)}, long \in BalanceCells \cup {R(60)},
        cash \in BalanceCells \cup {R(25)}, extra \in {<<>>}}
    \cup
    {[Complete(4, 1) EXCEPT !.quarterly_balance_sheet = Balance(debt, None, cash, extra)] :
        debt \in {None, R(0 - 40)}, cash \in {None, R(25), R(0 - 8)},
        extra \in {<<"Total Debt">>}}

(* Fewer than 4 quarters on file: the annual statements are used *)
WithAnnual ==
    {Complete(n, m) : n \in 0..MaxPeriods, m \in 0..MaxAnnual}
    \cup
    {[Complete(n, m) EXCEPT !.financials = Frame(Quarters(m), IncomeIndex, row, {m}, bad)] :
        n \in 0..3, m \in 1..MaxAnnual, row \in Range(IncomeIndex), bad \in BadCells}

(* Nothing on file: every table is empty *)
NoStatements ==
    Response(EmptyFrame, EmptyFrame, EmptyFrame, EmptyFrame, EmptyFrame, EmptyFrame, {})

(* Hand-written cases: columns handed over oldest first; revenue that sums  *)
(* to zero over the last four quarters; no cash-flow statement at all.      *)
Special ==
    {[Complete(5, 1) EXCEPT
        !.quarterly_financials = Plain(<<1, 2, 3, 4, 5>>, IncomeIndex)],
     [Complete(4, 1) EXCEPT
        !.quarterly_financials =
            [Plain(Quarters(4), IncomeIndex) EXCEPT
                !.cell["Total Revenue"] = [d \in 1..4 |-> R((2 * (d % 2) - 1) * 50)]]],
     [Complete(4, 1) EXCEPT !.quarterly_cashflow = EmptyFrame],
     [Complete(8, 1) EXCEPT
        !.quarterly_financials =
            [Plain(Quarters(8), IncomeIndex) EXCEPT
                !.cell["Total Revenue"][4] = R(10)]]}

Responses ==
    WithHoles \cup WithIndex \cup WithCashflowCols \cup WithBalance \cup WithAnnual
    \cup Special \cup {NoStatements}

(* The property accesses that may raise during one fetch (network error,    *)
(* rate limit, timeout): none, or one of the six.                           *)
Raising == {{}} \cup {{p} : p \in Properties}

-----------------------------------------------------------------------------
(* The service and its callers *)

Tickers == {"AAPL"}

(* The clock counts half hours, so that a reading may fall strictly inside  *)
(* the hour the service's cache keeps an answer                             *)
Hour == 2

MaxTime == 1

(* self.cache_duration = timedelta(hours=1) *)
CacheDurationHours == 1

(* use_quarterly of get_fundamentals_data *)
UseQuarterly(resp) ==
    /\ ~IsEmpty(resp.quarterly_financials)
    /\ ~IsEmpty(resp.quarterly_cashflow)
    /\ Len(resp.quarterly_financials.cols) >= 4

(* The try block of get_fundamentals_data, for a provider that raises nothing *)
Computed(ticker, resp, now_) ==
    IF UseQuarterly(resp)
    THEN _calculate_comprehensive_metrics(ticker, resp.quarterly_financials,
             resp.quarterly_cashflow, resp.quarterly_balance_sheet, TRUE, now_)
    ELSE _calculate_comprehensive_metrics(ticker, resp.financials,
             resp.cashflow, resp.balance_sheet, FALSE, now_)

(* Does get_fundamentals_data return the cached data for ticker? *)
CacheHit(ticker) ==
    /\ ticker \in DOMAIN cache
    /\ now - cache[ticker].timestamp < CacheDurationHours * Hour

(* Mutant: a failed access goes unnoticed *)
Fetched_unnoticed(ticker, resp) == Computed(ticker, resp, now)

(* What get_fundamentals_data returns on a miss, given the provider's answer *)
Fetched(ticker, resp) ==
    IF resp.raises # {} THEN _get_empty_result(ticker, now)
    ELSE Computed(ticker, resp, now)

(* Mutant: the ratio upside down *)
DebtToCash_inverted(ttm_data) ==
    IF ttm_data.total_debt # None /\ ttm_data.cash_and_equivalents # None
       /\ ~IsZero(ttm_data.cash_and_equivalents)
    THEN RDiv(ttm_data.cash_and_equivalents, ttm_data.total_debt) ELSE None

(* debt_to_cash as compute_ttm_metrics adds it *)
DebtToCash(ttm_data) ==
    IF ttm_data.total_debt # None /\ ttm_data.cash_and_equivalents # None
       /\ ~IsZero(ttm_data.cash_and_equivalents)
    THEN RDiv(ttm_data.total_debt, ttm_data.cash_and_equivalents) ELSE None

(* The FundamentalsTTM compute_ttm_metrics builds from data['ttm'] *)
FundamentalsTTM(ticker, ttm_data) ==
    [ticker |-> ticker,
     revenue_ttm |-> ttm_data.revenue_ttm,
     operating_income_ttm |-> ttm_data.operating_income_ttm,
     operating_margin_ttm |-> ttm_data.operating_margin_ttm,
     fcf_ttm |-> ttm_data.fcf_ttm,
     fcf_margin_ttm |-> ttm_data.fcf_margin_ttm,
     ebitda_ttm |-> ttm_data.ebitda_ttm,
     revenue_growth_yoy |-> ttm_data.revenue_growth_yoy,
     fcf_growth_yoy |-> ttm_data.fcf_growth_yoy,
     ebitda_growth_yoy |-> ttm_data.ebitda_growth_yoy,
     margin_growth_yoy_pp |-> ttm_data.margin_growth_yoy_pp,
     total_debt |-> ttm_data.total_debt,
     cash_and_equivalents |-> ttm_data.cash_and_equivalents,
     net_debt |-> ttm_data.net_debt,
     debt_to_cash |-> DebtToCash(ttm_data),
     insufficient_data |-> ttm_data.insufficient_data]

(* Nothing has been asked of the series wrapper, the TTL cache or the      *)
(* router yet                                                               *)
Untouched ==
    /\ series = None
    /\ full = None
    /\ ttl_cache = <<>>
    /\ calls = 0
    /\ answer = None
    /\ uses = <<>>
    /\ compacted = None
    /\ response = None
    /\ looked = None
    /\ fetching = <<>>
    /\ accessed = <<>>
    /\ running = <<>>
    /\ origins = <<>>
    /\ last_request = None

(* The provider has some statements on file for each ticker; they do not   *)
(* change during a run.                                                     *)
Init ==
    /\ provider \in [Tickers -> Responses]
    /\ now = 0
    /\ cache = <<>>
    /\ ret = None
    /\ raised = {}
    /\ growth = None
    /\ index_bool \in {"len", "raises"}
    /\ Untouched

(* compute_ttm_metrics(ticker), served from the service's own cache *)
TtmCached(ticker) ==
    /\ CacheHit(ticker)
    /\ ret' = FundamentalsTTM(ticker, cache[ticker].data.ttm)
    /\ raised' = {}
    /\ UNCHANGED <<provider, now, cache, growth, index_bool, beyond>>

(* compute_ttm_metrics(ticker), the accesses in `raises` failing *)
TtmFetched(ticker, raises) ==
    /\ ~CacheHit(ticker)
    /\ LET data == Fetched(ticker, [provider[ticker] EXCEPT !.raises = raises])
       IN  /\ ret' = FundamentalsTTM(ticker, data.ttm)
           /\ cache' = IF raises # {} THEN cache
                       ELSE [k \in DOMAIN cache \cup {ticker} |->
                               IF k = ticker THEN [data |-> data, timestamp |-> now]
                               ELSE cache[k]]
    /\ raised' = raises
    /\ UNCHANGED <<provider, now, growth, index_bool, beyond>>

compute_ttm_metrics(ticker) ==
    \/ TtmCached(ticker)
    \/ \E raises \in Raising : TtmFetched(ticker, raises)

Tick ==
    /\ now < MaxTime * Hour
    /\ now' = now + Hour
    /\ UNCHANGED <<provider, cache, ret, raised, growth, index_bool, beyond>>

Next ==
    \/ \E ticker \in Tickers : compute_ttm_metrics(ticker)
    \/ Tick

Spec == Init /\ [][Next]_vars

-----------------------------------------------------------------------------
(* _calculate_growth_rate called on its own, as the unit test does *)

GrowthArgs == {None, R(0), R(5), R(80), R(100), R(120), R(0 - 100), R(1200)}

GrowthMultipliers == {R(1), R(4)}

InitGrowth ==
    /\ provider = [t \in Tickers |-> NoStatements]
    /\ now = 0
    /\ cache = <<>>
    /\ ret = None
    /\ raised = {}
    /\ growth = None
    /\ index_bool = "len"
    /\ Untouched

CallGrowthRate(current, previous, multiplier) ==
    /\ growth' = [current |-> current, previous |-> previous,
                  multiplier |-> multiplier,
                  result |-> _calculate_growth_rate(current, previous, multiplier)]
    /\ UNCHANGED <<provider, now, cache, ret, raised, index_bool, beyond>>

NextGrowth ==
    \E current \in GrowthArgs, previous \in GrowthArgs, multiplier \in GrowthMultipliers :
        CallGrowthRate(current, previous, multiplier)

SpecGrowth == InitGrowth /\ [][NextGrowth]_vars

-----------------------------------------------------------------------------
(* _safe_get called on its own *)

(* A table whose row i holds 10 * i + d at date d, except that the cells   *)
(* <<i, d>> of `holes` hold `bad` (NaN or 0)                                *)
Labelled(cols, index, holes, bad) ==
    [cols |-> cols, index |-> index,
     cell |-> [l \in Range(index) |->
                 [d \in Range(cols) |->
                     LET i == CHOOSE j \in 1..Len(index) : index[j] = l
                     IN  IF <<i, d>> \in holes THEN bad ELSE R(10 * i + d)]]]

LookupCols == <<3, 2, 1>>

(* Line items under their primary label, under aliases, in other case, in  *)
(* several of these at once, and under no known label                       *)
LookupIndexes ==
    {<<"Total Revenue", "Operating Revenue">>,
     <<"total revenue", "Operating Revenue">>,
     <<"Revenue", "Total Revenue">>,
     <<"Sales", "Net Sales">>,
     <<"revenue", "sales">>,
     <<"EBIT", "Operating Income">>,
     <<"Depreciation">>}

LookupHoles == {{}, {<<1, 3>>}, {<<2, 3>>}}

LookupTables ==
    {Labelled(LookupCols, index, holes, bad) :
        index \in LookupIndexes, holes \in LookupHoles, bad \in BadCells}
    \cup {EmptyFrame}

LookupFields == {"Total Revenue", "Operating Income", "Cash And Cash Equivalents"}

(* The periods asked for: the columns of the tables and one that is none *)
LookupPeriods == 1..4

InitLookup ==
    /\ provider = [t \in Tickers |-> NoStatements]
    /\ now = 0
    /\ cache = <<>>
    /\ ret = None
    /\ raised = {}
    /\ growth = None
    /\ index_bool = "len"
    /\ Untouched

CallSafeGet(df, field, period) ==
    /\ looked' = [df |-> df, field |-> field, period |-> period,
                  value |-> _safe_get(df, field, period)]
    /\ UNCHANGED <<provider, now, cache, ret, raised, growth, index_bool,
                   series, full, wrapper, compacted, response, fetching, accessed, running, pipeline>>

NextLookup ==
    \E df \in LookupTables, field \in LookupFields, period \in LookupPeriods :
        CallSafeGet(df, field, period)

SpecLookup == InitLookup /\ [][NextLookup]_vars

-----------------------------------------------------------------------------
(* compute_quarterly_series and get_fundamentals_data called on their own *)

(* datetime.strptime(item['period'][:10], '%Y-%m-%d'): the period label of  *)
(* a series item is the column's date written out, which parses back to the *)
(* date; anything else falls back to datetime.now()                         *)
date_obj(item, now_) == IF item.period \in Int THEN item.period ELSE now_

FundamentalPoint(date, value) == [date |-> date, value |-> value]

(* The FundamentalsSeries compute_quarterly_series builds from data['series'] *)
FundamentalsSeries(series_data, now_) ==
    LET points(field) ==
            [i \in 1..Len(series_data) |->
                FundamentalPoint(date_obj(series_data[i], now_), series_data[i][field])]
    IN  [revenue_q |-> points("revenue"),
         operating_income_q |-> points("operating_income"),
         operating_margin_q |-> points("operating_margin"),
         fcf_q |-> points("fcf"),
         fcf_margin_q |-> points("fcf_margin"),
         ebitda_q |-> [i \in 1..Len(series_data) |->
                          FundamentalPoint(date_obj(series_data[i], now_), None)]]

(* self.cache after get_fundamentals_data(ticker) came back with data: a    *)
(* result of the except clause is not stored                                *)
Stored(ticker, data, raises) ==
    IF raises # {} THEN cache
    ELSE [k \in DOMAIN cache \cup {ticker} |->
            IF k = ticker THEN [data |-> data, timestamp |-> now] ELSE cache[k]]

(* The statements the service is asked about when called on its own *)
ServiceResponses ==
    {Complete(4, 1), Complete(2, 2), NoStatements,
     [Complete(5, 1) EXCEPT
        !.quarterly_financials =
            Frame(<<1, 2, 3, 4, 5>>, IncomeIndex, "Total Revenue", {3}, NaN)],
     (* capital expenditures reported as positive amounts *)
     [Complete(4, 1) EXCEPT
        !.quarterly_cashflow =
            [Plain(Quarters(4), CashflowIndex) EXCEPT
                !.cell["Capital Expenditures"] = [d \in 1..4 |-> R(10 + d)]]],
     (* a cash-flow statement without a capital-expenditure row *)
     [Complete(4, 1) EXCEPT
        !.quarterly_cashflow = Plain(Quarters(4), <<"Operating Cash Flow">>)]}

(* The accesses that fail when the service is called on its own: none, the *)
(* first of the six or the last                                             *)
ServiceRaising == {{}, {"quarterly_financials"}, {"balance_sheet"}}

InitService ==
    /\ provider \in [Tickers -> ServiceResponses]
    /\ now = 0
    /\ cache = <<>>
    /\ ret = None
    /\ raised = {}
    /\ growth = None
    /\ index_bool \in {"len", "raises"}
    /\ Untouched

(* get_fundamentals_data(ticker), answered from self.cache *)
DataCached(ticker) ==
    /\ CacheHit(ticker)
    /\ full' = [ticker |-> ticker, raised |-> {}, data |-> cache[ticker].data]
    /\ UNCHANGED <<provider, now, cache, ret, raised, growth, index_bool,
                   series, wrapper, compacted, response, further>>

(* get_fundamentals_data(ticker) came back with `data`, the accesses in     *)
(* `raises` having failed                                                   *)
DataFetched(ticker, raises, data) ==
    /\ full' = [ticker |-> ticker, raised |-> raises, data |-> data]
    /\ cache' = Stored(ticker, data, raises)
    /\ UNCHANGED <<provider, now, ret, raised, growth, index_bool,
                   series, wrapper, compacted, response, further>>

(* compute_quarterly_series(ticker), served from the service's own cache *)
SeriesCached(ticker) ==
    /\ CacheHit(ticker)
    /\ \E series_data \in {cache[ticker].data.series} :
          series' = [ticker |-> ticker, raised |-> {},
                     result |-> FundamentalsSeries(series_data, now)]
    /\ UNCHANGED <<provider, now, cache, ret, raised, growth, index_bool,
                   full, wrapper, compacted, response, further>>

(* compute_quarterly_series(ticker), its get_fundamentals_data having come *)
(* back with `data`                                                         *)
SeriesFetched(ticker, raises, data) ==
    /\ \E series_data \in {data.series} :
          series' = [ticker |-> ticker, raised |-> raises,
                     result |-> FundamentalsSeries(series_data, now)]
    /\ cache' = Stored(ticker, data, raises)
    /\ UNCHANGED <<provider, now, ret, raised, growth, index_bool,
                   full, wrapper, compacted, response, further>>

(* compute_ttm_metrics(ticker), its get_fundamentals_data having come back *)
(* with `data`                                                              *)
TtmComputed(ticker, raises, data) ==
    /\ ret' = FundamentalsTTM(ticker, data.ttm)
    /\ cache' = Stored(ticker, data, raises)
    /\ raised' = raises
    /\ UNCHANGED <<provider, now, growth, index_bool, beyond>>

(* One of the three entry points answered from self.cache *)
ServedFromCache(ticker) ==
    \/ DataCached(ticker)
    \/ SeriesCached(ticker)
    \/ TtmCached(ticker)

(* One of the three entry points asking the provider: each of them goes    *)
(* through get_fundamentals_data, the accesses in `raises` failing          *)
AskedOfProvider(ticker, raises) ==
    /\ ~CacheHit(ticker)
    /\ \E data \in {Fetched(ticker, [provider[ticker] EXCEPT !.raises = raises])} :
          \/ DataFetched(ticker, raises, data)
          \/ SeriesFetched(ticker, raises, data)
          \/ TtmComputed(ticker, raises, data)

NextService ==
    \/ \E ticker \in Tickers : ServedFromCache(ticker)
    \/ \E ticker \in Tickers, raises \in ServiceRaising : AskedOfProvider(ticker, raises)
    \/ Tick

SpecService == InitService /\ [][NextService]_vars

-----------------------------------------------------------------------------
(* get_fundamentals_data followed access by access: every statement is a   *)
(* property of the yf.Ticker object, read in the order of lines 118-125,   *)
(* and any of the reads may raise, which ends the try block.               *)

PropertyOrder ==
    <<"quarterly_financials", "quarterly_cashflow", "quarterly_balance_sheet",
      "financials", "cashflow", "balance_sheet">>

(* Mutant: the annual statements are not asked for *)
AllRead_quarterly(acc) == Len(acc) = 3

(* Has the try block read every statement? *)
AllRead(acc) == Len(acc) = Len(PropertyOrder)

FetchResponses == {Complete(4, 1), Complete(2, 2), NoStatements}

InitFetch ==
    /\ provider \in [Tickers -> FetchResponses]
    /\ now = 0
    /\ cache = <<>>
    /\ ret = None
    /\ raised = {}
    /\ growth = None
    /\ index_bool \in {"len", "raises"}
    /\ Untouched

(* A call that misses self.cache enters the try block *)
FetchBegin(ticker) ==
    /\ fetching = <<>>
    /\ ~CacheHit(ticker)
    /\ fetching' = <<ticker>>
    /\ accessed' = <<>>
    /\ raised' = {}
    /\ UNCHANGED <<provider, now, cache, ret, growth, index_bool,
                   series, full, wrapper, compacted, response, looked, running, pipeline>>

(* The next statement is read from the provider, and the read raises or not *)
Access(raises) ==
    /\ fetching # <<>>
    /\ raised = {}
    /\ ~AllRead(accessed)
    /\ LET property == PropertyOrder[Len(accessed) + 1]
       IN  /\ accessed' = Append(accessed, property)
           /\ raised' = IF raises THEN {property} ELSE {}
    /\ UNCHANGED <<provider, now, cache, ret, growth, index_bool,
                   series, full, wrapper, compacted, response, looked, fetching, running, pipeline>>

(* The call returns: the metrics of what was read, or the empty result of  *)
(* the except clause                                                       *)
FetchEnd ==
    /\ fetching # <<>>
    /\ raised # {} \/ AllRead(accessed)
    /\ \E data \in {Fetched(fetching[1], [provider[fetching[1]] EXCEPT !.raises = raised])} :
          /\ full' = [ticker |-> fetching[1], raised |-> raised, data |-> data]
          /\ cache' = Stored(fetching[1], data, raised)
    /\ fetching' = <<>>
    /\ UNCHANGED <<provider, now, ret, raised, growth, index_bool,
                   series, wrapper, compacted, response, looked, accessed, running, pipeline>>

(* A call answered from self.cache asks the provider for nothing *)
FetchCached(ticker) ==
    /\ fetching = <<>>
    /\ DataCached(ticker)

NextFetch ==
    \/ \E ticker \in Tickers : FetchBegin(ticker)
    \/ \E raises \in BOOLEAN : Access(raises)
    \/ FetchEnd
    \/ \E ticker \in Tickers : FetchCached(ticker)
    \/ Tick

SpecFetch == InitFetch /\ [][NextFetch]_vars

-----------------------------------------------------------------------------
(* backend/core/cache.py: the TTL cache shared by the @cached functions.    *)
(*                                                                          *)
(* _fundamentals_cache is a cachetools.TTLCache.  It is modelled as the     *)
(* sequence of its entries [key, value, expires] in the order of the        *)
(* library's access list, least recently used first.                        *)
(* A key is the pair of the function's name and its arguments; collisions   *)
(* of the md5 digest cache_key takes of them are not modelled.  The wrapper *)
(* runs its lookup and its store without the clock moving in between.       *)

(* ttl of _fundamentals_cache, in hours *)
Ttl == 6

(* maxsize of _fundamentals_cache, scaled down from 200 *)
MaxSize == 2

KeysOf(c) == {c[i].key : i \in 1..Len(c)}

EntryOf(c, key) == CHOOSE e \in Range(c) : e.key = key

Without(c, key) == SelectSeq(c, LAMBDA e : e.key # key)

(* Mutant: an entry stays valid for ever *)
TTLCache_contains_stale(c, key, t) == key \in KeysOf(c)

(* key in _fundamentals_cache, at time t *)
TTLCache_contains(c, key, t) ==
    \E e \in Range(c) : e.key = key /\ t < e.expires

(* Mutant: a read leaves the access order alone *)
TTLCache_getitem_unmoved(c, key) ==
    [value |-> EntryOf(c, key).value, cache |-> c]

(* _fundamentals_cache[key] for a key it contains: the value, and the      *)
(* cache with the entry moved to the recently-used end                      *)
TTLCache_getitem(c, key) ==
    [value |-> EntryOf(c, key).value,
     cache |-> Append(Without(c, key), EntryOf(c, key))]

(* The entries that have not expired at time t *)
TTLCache_expire(c, t) == SelectSeq(c, LAMBDA e : t < e.expires)

(* popitem() until one more entry fits *)
RECURSIVE MakeRoom(_)
MakeRoom(c) == IF Len(c) + 1 > MaxSize THEN MakeRoom(Tail(c)) ELSE c

(* _fundamentals_cache[key] = value, at time t *)
TTLCache_setitem(c, key, value, t) ==
    LET live == TTLCache_expire(c, t)
        room == IF key \in KeysOf(live) THEN Without(live, key) ELSE MakeRoom(live)
    IN  Append(room, [key |-> key, value |-> value, expires |-> t + Ttl * Hour])

(* key of cached.wrapper *)
cache_key(name, args) == <<name, args>>

(* The order of last use after a call with key *)
Used(key) == Append(SelectSeq(uses, LAMBDA k : k # key), key)

(* cached.wrapper(args) finding its key in the cache *)
CachedHit(key) ==
    /\ TTLCache_contains(ttl_cache, key, now)
    /\ LET got == TTLCache_getitem(ttl_cache, key)
       IN  /\ answer' = [key |-> key, value |-> got.value, hit |-> TRUE]
           /\ ttl_cache' = got.cache
    /\ uses' = Used(key)
    /\ UNCHANGED calls

(* cached.wrapper(args) not finding it: func is invoked and returns result *)
CachedMiss(key, result) ==
    /\ ~TTLCache_contains(ttl_cache, key, now)
    /\ calls' = calls + 1
    /\ ttl_cache' = TTLCache_setitem(ttl_cache, key, result, now)
    /\ answer' = [key |-> key, value |-> result, hit |-> FALSE]
    /\ uses' = Used(key)

(* clear_cache() *)
clear_cache ==
    /\ ttl_cache' = <<>>
    /\ answer' = None
    /\ uses' = <<>>
    /\ UNCHANGED <<provider, now, cache, ret, raised, growth, index_bool,
                   series, full, calls, compacted, response, further>>

(* A @cached function on its own: func(arg) for arg in 1 .. MaxSize + 1,   *)
(* whose result is the number of the invocation, so that no two            *)
(* invocations return the same value.                                       *)
MaxClock == 7

MaxCalls == 3

Args == 1..(MaxSize + 1)

InitCache ==
    /\ provider = [t \in Tickers |-> NoStatements]
    /\ now = 0
    /\ cache = <<>>
    /\ ret = None
    /\ raised = {}
    /\ growth = None
    /\ index_bool = "len"
    /\ Untouched

func(arg) ==
    /\ \/ CachedHit(cache_key("func", arg))
       \/ calls < MaxCalls /\ CachedMiss(cache_key("func", arg), calls + 1)
    /\ UNCHANGED <<provider, now, cache, ret, raised, growth, index_bool,
                   series, full, compacted, response, further>>

Sleep ==
    /\ now < MaxClock * Hour
    /\ now' = now + Hour
    /\ UNCHANGED <<provider, cache, ret, raised, growth, index_bool, beyond>>

NextCache ==
    \/ \E arg \in Args : func(arg)
    \/ clear_cache
    \/ Sleep

SpecCache == InitCache /\ [][NextCache]_vars

-----------------------------------------------------------------------------
(* cached.wrapper run by several threads.  The wrapper takes no lock, so   *)
(* its steps interleave: the test `key in _fundamentals_cache` (line 29),  *)
(* the read `_fundamentals_cache[key]` (line 30), the call of func         *)
(* (line 32) and the store (line 33) are steps of their own, and the       *)
(* clock, clear_cache and the other threads may act in between.  A read    *)
(* of a key that is gone or has expired raises KeyError.  What a call      *)
(* returned, or the error it ended with, is kept in running[thread].       *)

Threads == {1, 2}

ThreadArgs == 1..(MaxSize + 1)

Idle == [pc |-> "idle", key |-> <<>>, value |-> 0, error |-> "none"]

InitThreads ==
    /\ provider = [t \in Tickers |-> NoStatements]
    /\ now = 0
    /\ cache = <<>>
    /\ ret = None
    /\ raised = {}
    /\ growth = None
    /\ index_bool = "len"
    /\ series = None
    /\ full = None
    /\ ttl_cache = <<>>
    /\ calls = 0
    /\ answer = None
    /\ uses = <<>>
    /\ compacted = None
    /\ response = None
    /\ looked = None
    /\ fetching = <<>>
    /\ accessed = <<>>
    /\ running = [t \in Threads |-> Idle]
    /\ origins = <<>>
    /\ last_request = None

ThreadsLeaveAlone ==
    UNCHANGED <<provider, now, cache, ret, raised, growth, index_bool,
                series, full, compacted, response, looked, fetching, accessed, pipeline>>

(* line 29: if key in _fundamentals_cache *)
TestKey(t, arg) ==
    /\ running[t].pc = "idle"
    /\ LET key == cache_key("func", arg)
       IN  running' = [running EXCEPT ![t] =
                          [pc |-> IF TTLCache_contains(ttl_cache, key, now)
                                  THEN "read" ELSE "call",
                           key |-> key, value |-> 0, error |-> "none"]]
    /\ UNCHANGED <<ttl_cache, calls, answer, uses>>
    /\ ThreadsLeaveAlone

(* line 30: return _fundamentals_cache[key] *)
Read(t) ==
    /\ running[t].pc = "read"
    /\ IF TTLCache_contains(ttl_cache, running[t].key, now)
       THEN LET got == TTLCache_getitem(ttl_cache, running[t].key)
            IN  /\ ttl_cache' = got.cache
                /\ running' = [running EXCEPT ![t] = [Idle EXCEPT !.value = got.value]]
       ELSE /\ running' = [running EXCEPT ![t] = [Idle EXCEPT !.error = "KeyError"]]
            /\ UNCHANGED ttl_cache
    /\ UNCHANGED <<calls, answer, uses>>
    /\ ThreadsLeaveAlone

(* line 32: result = func(...) *)
Call(t) ==
    /\ running[t].pc = "call"
    /\ calls < MaxCalls
    /\ calls' = calls + 1
    /\ running' = [running EXCEPT ![t].pc = "store", ![t].value = calls + 1]
    /\ UNCHANGED <<ttl_cache, answer, uses>>
    /\ ThreadsLeaveAlone

(* lines 33-34: _fundamentals_cache[key] = result; return result *)
Store(t) ==
    /\ running[t].pc = "store"
    /\ ttl_cache' = TTLCache_setitem(ttl_cache, running[t].key, running[t].value, now)
    /\ running' = [running EXCEPT ![t] = [Idle EXCEPT !.value = running[t].value]]
    /\ UNCHANGED <<calls, answer, uses>>
    /\ ThreadsLeaveAlone

(* clear_cache() called by some other thread *)
Clear ==
    /\ ttl_cache # <<>>
    /\ ttl_cache' = <<>>
    /\ UNCHANGED <<calls, answer, uses, running>>
    /\ ThreadsLeaveAlone

Elapse ==
    /\ now < MaxClock * Hour
    /\ now' = now + Hour
    /\ UNCHANGED <<provider, cache, ret, raised, growth, index_bool,
                   series, full, wrapper, compacted, response, further>>

NextThreads ==
    \/ \E t \in Threads, arg \in ThreadArgs : TestKey(t, arg)
    \/ \E t \in Threads : Read(t)
    \/ \E t \in Threads : Call(t)
    \/ \E t \in Threads : Store(t)
    \/ Clear
    \/ Elapse

SpecThreads == InitThreads /\ [][NextThreads]_vars

-----------------------------------------------------------------------------
(* backend/routers/fundamentals.py: what crosses the boundary.              *)
(*                                                                          *)
(* A dict is a function on the keys it has.  The values of ticker and       *)
(* insufficient_data are a str and a bool, every other value is a number,   *)
(* NaN, None or a list; None and the empty list are the same value <<>>     *)
(* here.  No dict that reaches compact in this program holds another dict,  *)
(* so the descent into nested dicts is left out.                            *)

ScalarFields == {"ticker", "insufficient_data"}

(* model.model_dump(exclude_none=True) *)
model_dump(model) ==
    [k \in {f \in DOMAIN model : f \in ScalarFields \/ model[f] # None} |-> model[k]]

(* Is v one of the values compact drops: None, NaN, an empty sequence? *)
Dropped(v) == v = None \/ v = NaN \/ v = <<>>

(* Mutant: only None is dropped *)
compact_none_only(d) ==
    [k \in {f \in DOMAIN d : f \in ScalarFields \/ d[f] # None} |-> d[k]]

(* compact(d) of backend/services/fundamentals.py *)
compact(d) ==
    [k \in {f \in DOMAIN d : f \in ScalarFields \/ ~Dropped(d[f])} |-> d[k]]

(* str.upper() on the tickers that are asked for *)
upper(ticker) ==
    CASE ticker = "aapl" -> "AAPL"
      [] ticker = "msft" -> "MSFT"
      [] OTHER -> ticker

(* The caches and the record of the last calls, as a handler threads them  *)
(* through the calls it makes                                               *)
Threaded ==
    [ttl |-> ttl_cache, svc |-> cache, calls |-> calls, uses |-> uses,
     ret |-> ret, raised |-> raised, last |-> answer]

(* CacheHit for the service cache as it stands within a handler *)
SvcHit(svc, ticker) ==
    /\ ticker \in DOMAIN svc
    /\ now - svc[ticker].timestamp < CacheDurationHours * Hour

(* The element of a set of one: The({F(x) : x \in {e}}) is F(e) with e      *)
(* worked out once                                                          *)
The(S) == CHOOSE x \in S : TRUE

(* compute_ttm_metrics(ticker) within a handler: the FundamentalsTTM and   *)
(* the service cache it leaves, given what get_fundamentals_data returned  *)
Metrics(st, ticker, raises, hit, data) ==
    [ttm_data |-> FundamentalsTTM(ticker, data.ttm),
     svc |-> IF hit \/ raises # {} THEN st.svc
             ELSE [k \in DOMAIN st.svc \cup {ticker} |->
                     IF k = ticker THEN [data |-> data, timestamp |-> now]
                     ELSE st.svc[k]]]

(* The wrapper storing what the wrapped function returned *)
Kept_by_wrapper(st, key, seen, raises, hit, got, value) ==
    [ttl |-> TTLCache_setitem(st.ttl, key, value, now),
     svc |-> got.svc,
     calls |-> st.calls + 1,
     uses |-> seen,
     ret |-> got.ttm_data,
     raised |-> IF hit THEN {} ELSE raises,
     last |-> [key |-> key, value |-> value, hit |-> FALSE]]

(* _compute_ttm_cached(ticker), the accesses in `raises` failing if the    *)
(* provider is asked.  Answered from the TTL cache when it has the key;    *)
(* otherwise compute_ttm_metrics runs, and its result is dumped,           *)
(* compacted and stored.                                                    *)
ttm_cached(st, ticker, raises) ==
    LET key == cache_key("_compute_ttm_cached", ticker)
        seen == Append(SelectSeq(st.uses, LAMBDA k : k # key), key)
        hit == SvcHit(st.svc, ticker)
    IN  IF TTLCache_contains(st.ttl, key, now)
        THEN LET got == TTLCache_getitem(st.ttl, key)
             IN  [st EXCEPT !.ttl = got.cache, !.uses = seen,
                            !.last = [key |-> key, value |-> got.value, hit |-> TRUE]]
        ELSE The({The({The({Kept_by_wrapper(st, key, seen, raises, hit, got, compact(ttm_dict)) :
                              ttm_dict \in {model_dump(got.ttm_data)}}) :
                         got \in {Metrics(st, ticker, raises, hit, data)}}) :
                    data \in {IF hit THEN st.svc[ticker].data
                              ELSE Fetched(ticker, [provider[ticker] EXCEPT
                                                      !.raises = raises])}})

(* The handler is done: st is the state it leaves *)
Left(st) ==
    /\ ttl_cache' = st.ttl
    /\ cache' = st.svc
    /\ calls' = st.calls
    /\ uses' = st.uses
    /\ ret' = st.ret
    /\ raised' = st.raised
    /\ answer' = st.last

(* _compute_ttm_cached(ticker) *)
_compute_ttm_cached(ticker, raises) ==
    \E th \in {Threaded} : \E st \in {ttm_cached(th, ticker, raises)} : Left(st)

(* GET /{ticker}/ttm *)
get_ttm_fundamentals(ticker) ==
    /\ \E raises \in ServiceRaising : _compute_ttm_cached(upper(ticker), raises)
    /\ response' = [status |-> 200, body |-> answer'.value]
    /\ UNCHANGED <<provider, now, growth, index_bool, series, full, compacted, further>>

(* compact called on its own, as a unit test calls it *)
CompactValues == {None, NaN, R(1)}

CompactArgs ==
    [{"a", "b", "c", "d"} -> CompactValues]
    \cup {[a |-> R(0), b |-> <<R(1)>>, c |-> <<>>, d |-> NaN],
          [a |-> <<R(0)>>, b |-> R(0 - 1), c |-> R(0), d |-> None]}

CallCompact(d) ==
    /\ compacted' = [arg |-> d, result |-> compact(d)]
    /\ UNCHANGED <<provider, now, cache, ret, raised, growth, index_bool,
                   series, full, wrapper, response, further>>

CompactResponses ==
    {Complete(4, 1), NoStatements,
     [Complete(4, 1) EXCEPT
        !.quarterly_balance_sheet = Balance(R(40), R(60), None, <<>>)]}

InitCompact ==
    /\ provider \in [Tickers -> CompactResponses]
    /\ now = 0
    /\ cache = <<>>
    /\ ret = None
    /\ raised = {}
    /\ growth = None
    /\ index_bool \in {"len", "raises"}
    /\ Untouched

NextCompact ==
    \/ \E ticker \in {"aapl"} : get_ttm_fundamentals(ticker)
    \/ \E d \in CompactArgs : CallCompact(d)

SpecCompact == InitCompact /\ [][NextCompact]_vars

-----------------------------------------------------------------------------
(* POST /compare and POST /screener.                                        *)
(*                                                                          *)
(* A batch handler is one step: the clock does not move during             *)
(* its loop.  What happens to the i-th ticker of a batch is fates[i]: "ok"  *)
(* or "throws" (an exception leaves _compute_ttm_cached before anything is  *)
(* stored).  The provider answers; its failures do not reach the router.    *)

RouterTickers == {"AAPL", "MSFT"}

Fates == {"ok", "throws"}

(* The loop has got past _compute_ttm_cached for one more ticker *)
Collected(st, done) ==
    [st EXCEPT !.caches = done, !.processed = Append(@, done.last.value)]

(* Mutant: the exception of one ticker ends the loop and the handler *)
RECURSIVE batch_aborting(_, _, _, _)
batch_aborting(st, tickers, fates, i) ==
    IF i > Len(tickers) THEN st
    ELSE IF fates[i] = "throws" THEN [st EXCEPT !.failed = TRUE]
    ELSE The({batch_aborting(Collected(st, done), tickers, fates, i + 1) :
                done \in {ttm_cached(st.caches, upper(tickers[i]), {})}})

(* The loop of a batch handler from the i-th ticker on: each ticker is     *)
(* upper-cased and handed to _compute_ttm_cached inside a try block whose  *)
(* except clause goes on to the next ticker.  processed lists the          *)
(* compacted records of the tickers that got past the call.                 *)
RECURSIVE batch(_, _, _, _)
batch(st, tickers, fates, i) ==
    IF i > Len(tickers) THEN st
    ELSE IF fates[i] = "throws" THEN batch(st, tickers, fates, i + 1)
    ELSE The({batch(Collected(st, done), tickers, fates, i + 1) :
                done \in {ttm_cached(st.caches, upper(tickers[i]), {})}})

(* x.get(field), None when the dict has no such key *)
get(x, field) == IF field \in DOMAIN x THEN x[field] ELSE None

(* list.sort(key=..., reverse=...) on a list of [k, v] pairs: stable *)
RECURSIVE sort(_, _)
sort(pairs, reverse) ==
    IF Len(pairs) = 0 THEN pairs
    ELSE LET front == sort(SubSeq(pairs, 1, Len(pairs) - 1), reverse)
             x == pairs[Len(pairs)]
             n == Cardinality({i \in 1..Len(front) :
                      IF reverse THEN ~RLess(front[i].k, x.k)
                      ELSE ~RLess(x.k, front[i].k)})
         IN  SubSeq(front, 1, n) \o <<x>> \o SubSeq(front, n + 1, Len(front))

Values(pairs) == [i \in 1..Len(pairs) |-> pairs[i].v]

CompareLimit == 20

(* compare_fundamentals(request) *)
compare_fundamentals(tickers, fates) ==
    /\ IF Len(tickers) = 0 \/ Len(tickers) > CompareLimit
       THEN /\ response' = [endpoint |-> "compare", tickers |-> tickers,
                            fates |-> fates, status |-> 500, body |-> None]
            /\ UNCHANGED <<cache, ret, raised, wrapper>>
       ELSE \E st \in {The({batch([caches |-> th, processed |-> <<>>, failed |-> FALSE],
                                    tickers, fates, 1) : th \in {Threaded}})} :
            LET keyed == [i \in 1..Len(st.processed) |->
                            [k |-> IF get(st.processed[i], "revenue_ttm") # None
                                   THEN st.processed[i].revenue_ttm ELSE R(0),
                             v |-> st.processed[i]]]
            IN  /\ Left(st.caches)
                /\ response' = [endpoint |-> "compare", tickers |-> tickers,
                                fates |-> fates,
                                status |-> IF st.failed THEN 500 ELSE 200,
                                body |-> IF st.failed THEN None
                                         ELSE Values(sort(keyed, TRUE))]
    /\ UNCHANGED <<provider, now, growth, index_bool, series, full, compacted, further>>

UniverseLimit == 500

(* Mutant: a filter passes a record that lacks its field *)
passed_filters_lenient(request, compacted_) ==
    /\ ~(request.min_revenue_growth_yoy # None
         /\ get(compacted_, "revenue_growth_yoy") # None
         /\ RLess(get(compacted_, "revenue_growth_yoy"), request.min_revenue_growth_yoy))
    /\ ~(request.min_fcf_growth_yoy # None
         /\ get(compacted_, "fcf_growth_yoy") # None
         /\ RLess(get(compacted_, "fcf_growth_yoy"), request.min_fcf_growth_yoy))
    /\ ~(request.min_margin_growth_yoy_pp # None
         /\ get(compacted_, "margin_growth_yoy_pp") # None
         /\ RLess(get(compacted_, "margin_growth_yoy_pp"), request.min_margin_growth_yoy_pp))
    /\ ~(request.min_ebitda_growth_yoy # None
         /\ get(compacted_, "ebitda_growth_yoy") # None
         /\ RLess(get(compacted_, "ebitda_growth_yoy"), request.min_ebitda_growth_yoy))
    /\ ~(request.max_debt_to_cash # None
         /\ get(compacted_, "debt_to_cash") # None
         /\ RLess(request.max_debt_to_cash, get(compacted_, "debt_to_cash")))

(* passed_filters of screen_fundamentals for one compacted record *)
passed_filters(request, compacted_) ==
    /\ ~(request.min_revenue_growth_yoy # None
         /\ (get(compacted_, "revenue_growth_yoy") = None
             \/ RLess(get(compacted_, "revenue_growth_yoy"), request.min_revenue_growth_yoy)))
    /\ ~(request.min_fcf_growth_yoy # None
         /\ (get(compacted_, "fcf_growth_yoy") = None
             \/ RLess(get(compacted_, "fcf_growth_yoy"), request.min_fcf_growth_yoy)))
    /\ ~(request.min_margin_growth_yoy_pp # None
         /\ (get(compacted_, "margin_growth_yoy_pp") = None
             \/ RLess(get(compacted_, "margin_growth_yoy_pp"), request.min_margin_growth_yoy_pp)))
    /\ ~(request.min_ebitda_growth_yoy # None
         /\ (get(compacted_, "ebitda_growth_yoy") = None
             \/ RLess(get(compacted_, "ebitda_growth_yoy"), request.min_ebitda_growth_yoy)))
    /\ ~(request.max_debt_to_cash # None
         /\ (get(compacted_, "debt_to_cash") = None
             \/ RLess(request.max_debt_to_cash, get(compacted_, "debt_to_cash"))))

valid_sort_fields ==
    {"revenue_growth_yoy", "fcf_growth_yoy", "ebitda_growth_yoy",
     "fcf_margin_ttm", "operating_margin_ttm", "revenue_ttm"}

(* results[:limit] for limit >= 0 *)
Limited(results, limit) == SubSeq(results, 1, IF limit < Len(results) THEN limit ELSE Len(results))

(* screen_fundamentals(request), for a request that names its universe *)
screen_fundamentals(request, fates) ==
    /\ IF Len(request.universe) > UniverseLimit
       THEN /\ response' = [endpoint |-> "screener", request |-> request,
                            fates |-> fates, status |-> 500, body |-> None]
            /\ UNCHANGED <<cache, ret, raised, wrapper>>
       ELSE \E st \in {The({batch([caches |-> th, processed |-> <<>>, failed |-> FALSE],
                                    request.universe, fates, 1) : th \in {Threaded}})} :
            LET results == SelectSeq(st.processed,
                               LAMBDA c : /\ ~(IF "insufficient_data" \in DOMAIN c
                                                THEN c.insufficient_data ELSE TRUE)
                                          /\ passed_filters(request, c))
                sort_field == IF request.sort_by \in valid_sort_fields
                              THEN request.sort_by ELSE "revenue_growth_yoy"
                keyed == [i \in 1..Len(results) |->
                            [k |-> IF get(results[i], sort_field) # None
                                   THEN results[i][sort_field] ELSE R(0 - 999999),
                             v |-> results[i]]]
            IN  /\ Left(st.caches)
                /\ response' =
                      [endpoint |-> "screener", request |-> request, fates |-> fates,
                       status |-> IF st.failed THEN 500 ELSE 200,
                       body |-> IF st.failed THEN None
                                ELSE [results |-> Limited(Values(sort(keyed,
                                                     request.sort_dir \in {"desc", "DESC"})),
                                                 request.limit),
                                      total_screened |-> Len(st.processed),
                                      filters_applied |->
                                          [min_revenue_growth_yoy |-> request.min_revenue_growth_yoy,
                                           min_fcf_growth_yoy |-> request.min_fcf_growth_yoy,
                                           min_margin_growth_yoy_pp |-> request.min_margin_growth_yoy_pp,
                                           min_ebitda_growth_yoy |-> request.min_ebitda_growth_yoy,
                                           max_debt_to_cash |-> request.max_debt_to_cash,
                                           sort_by |-> sort_field,
                                           sort_dir |-> request.sort_dir]]]
    /\ UNCHANGED <<provider, now, growth, index_bool, series, full, compacted, further>>

(* The statements on file for the tickers of a batch *)
RouterResponses ==
    [AAPL |-> {Complete(4, 1)},
     MSFT |-> {NoStatements,
               [Complete(8, 1) EXCEPT
                  !.quarterly_balance_sheet = Balance(R(40), R(60), None, <<>>)]}]

CompareRequests == {<<>>, <<"aapl", "MSFT">>}

(* ScreenerRequest with its defaults, for a universe of two *)
NoFilters ==
    [universe |-> <<"MSFT", "aapl">>, min_revenue_growth_yoy |-> None,
     min_fcf_growth_yoy |-> None, min_margin_growth_yoy_pp |-> None,
     min_ebitda_growth_yoy |-> None, max_debt_to_cash |-> None, limit |-> 100,
     sort_by |-> "revenue_growth_yoy", sort_dir |-> "desc"]

ScreenRequests ==
    {NoFilters,
     [NoFilters EXCEPT !.min_revenue_growth_yoy = Norm(1, 2)],
     [NoFilters EXCEPT !.min_fcf_growth_yoy = Norm(1, 5)],
     [NoFilters EXCEPT !.min_margin_growth_yoy_pp = R(0)],
     [NoFilters EXCEPT !.min_ebitda_growth_yoy = Norm(1, 2)],
     [NoFilters EXCEPT !.max_debt_to_cash = R(5)],
     [NoFilters EXCEPT !.min_revenue_growth_yoy = R(0), !.max_debt_to_cash = R(3)],
     [NoFilters EXCEPT !.limit = 1, !.sort_by = "revenue_ttm", !.sort_dir = "asc"],
     [NoFilters EXCEPT !.sort_by = "ticker", !.sort_dir = "DESC"]}

InitRouter ==
    /\ provider \in {p \in [RouterTickers -> UNION {RouterResponses[t] : t \in RouterTickers}] :
                        \A t \in RouterTickers : p[t] \in RouterResponses[t]}
    /\ now = 0
    /\ cache = <<>>
    /\ ret = None
    /\ raised = {}
    /\ growth = None
    /\ index_bool \in {"len", "raises"}
    /\ Untouched

NextRouter ==
    \/ \E tickers \in CompareRequests :
          \E fates \in [1..Len(tickers) -> Fates] : compare_fundamentals(tickers, fates)
    \/ \E request \in ScreenRequests :
          \E fates \in [1..Len(request.universe) -> Fates] :
              screen_fundamentals(request, fates)

SpecRouter == InitRouter /\ [][NextRouter]_vars

-----------------------------------------------------------------------------
(* The cached pipeline over time: requests for the TTM figures and for the *)
(* full data of a ticker, the clearing of the TTL cache, and the clock.    *)
(* Two caches lie behind a request: the TTL cache of core/cache.py and     *)
(* FundamentalsService.cache.  origins and last_request record, for the    *)
(* properties, when the provider was asked for what a request returned.    *)

(* _compute_full_cached(ticker): get_fundamentals_data behind the wrapper *)
full_cached(st, ticker, raises) ==
    LET key == cache_key("_compute_full_cached", ticker)
        seen == Append(SelectSeq(st.uses, LAMBDA k : k # key), key)
        hit == SvcHit(st.svc, ticker)
    IN  IF TTLCache_contains(st.ttl, key, now)
        THEN LET got == TTLCache_getitem(st.ttl, key)
             IN  [st EXCEPT !.ttl = got.cache, !.uses = seen,
                            !.last = [key |-> key, value |-> got.value, hit |-> TRUE]]
        ELSE The({[ttl |-> TTLCache_setitem(st.ttl, key, data, now),
                   svc |-> IF hit \/ raises # {} THEN st.svc
                           ELSE [k \in DOMAIN st.svc \cup {ticker} |->
                                   IF k = ticker THEN [data |-> data, timestamp |-> now]
                                   ELSE st.svc[k]],
                   calls |-> st.calls + 1,
                   uses |-> seen,
                   ret |-> st.ret,
                   raised |-> IF hit THEN {} ELSE raises,
                   last |-> [key |-> key, value |-> data, hit |-> FALSE]] :
                    data \in {IF hit THEN st.svc[ticker].data
                              ELSE Fetched(ticker, [provider[ticker] EXCEPT
                                                      !.raises = raises])}})

(* What a request that left the caches as st was answered from *)
Origin(st, ticker) ==
    IF st.last.hit THEN origins[st.last.key]
    ELSE IF SvcHit(cache, ticker)
    THEN [fetched |-> cache[ticker].timestamp, failed |-> FALSE]
    ELSE [fetched |-> now, failed |-> st.raised # {}]

Requested(kind, ticker, st) ==
    /\ Left(st)
    /\ last_request' = [kind |-> kind, ticker |-> ticker, at |-> now,
                        asked |-> ~st.last.hit /\ ~SvcHit(cache, ticker),
                        hit |-> st.last.hit,
                        fetched |-> Origin(st, ticker).fetched,
                        failed |-> Origin(st, ticker).failed]
    /\ origins' = [k \in KeysOf(st.ttl) |->
                     IF k = st.last.key THEN Origin(st, ticker) ELSE origins[k]]
    /\ UNCHANGED <<provider, now, growth, index_bool, series, full, compacted,
                   response, looked, fetching, accessed, running>>

PipelineRaising == {{}, {"quarterly_financials"}}

(* GET /{ticker}/ttm and GET /{ticker} *)
Request(kind, ticker) ==
    /\ calls < MaxCalls
    /\ \E raises \in PipelineRaising : \E th \in {Threaded} :
          \E st \in {IF kind = "ttm" THEN ttm_cached(th, ticker, raises)
                     ELSE full_cached(th, ticker, raises)} :
              Requested(kind, ticker, st)

(* clear_cache() between two requests *)
ClearCache ==
    /\ ttl_cache' = <<>>
    /\ uses' = <<>>
    /\ origins' = <<>>
    /\ last_request' = [kind |-> "clear", at |-> now]
    /\ UNCHANGED <<provider, now, cache, ret, raised, growth, index_bool,
                   series, full, calls, answer, compacted, response,
                   looked, fetching, accessed, running>>

(* Half an hour passes with no request being answered *)
Wait ==
    /\ now < MaxClock * Hour
    /\ now' = now + 1
    /\ last_request' = None
    /\ UNCHANGED <<provider, cache, ret, raised, growth, index_bool, series,
                   full, wrapper, compacted, response, looked, fetching,
                   accessed, running, origins>>

InitPipeline ==
    /\ provider = [t \in Tickers |-> Complete(4, 1)]
    /\ now = 0
    /\ cache = <<>>
    /\ ret = None
    /\ raised = {}
    /\ growth = None
    /\ index_bool = "len"
    /\ Untouched

NextPipeline ==
    \/ \E kind \in {"ttm", "full"}, ticker \in Tickers : Request(kind, ticker)
    \/ ClearCache
    \/ Wait

SpecPipeline == InitPipeline /\ [][NextPipeline]_vars

-----------------------------------------------------------------------------
(* Vocabulary of the properties below *)

(* compute_ttm_metrics has returned *)
Called == ret # None

(* The statements on file for the ticker of the last call *)
Stmts == provider[ret.ticker]

(* The labels a canonical line item may carry, case ignored *)
Aliases(field) == {Lower(v) : v \in Range(FieldVariants(field))}

(* The table has a valid (not NaN, not zero) observation of field at date d *)
ValidAt(df, field, d) ==
    /\ d \in Range(df.cols)
    /\ \E l \in Range(df.index) :
          /\ Lower(l) \in Aliases(field)
          /\ NotNa(df.cell[l][d])
          /\ ~IsZero(df.cell[l][d])

ValidDates(df, field) == {d \in Range(df.cols) : ValidAt(df, field, d)}

(* The k most recent dates of D *)
Latest(D, k) == {d \in D : Cardinality({e \in D : e > d}) < k}

RECURSIVE SumValid(_, _, _)
(* The sum of the valid observations of field at the dates D *)
SumValid(df, field, D) ==
    IF D = {} THEN R(0)
    ELSE LET d == CHOOSE x \in D : TRUE
             rest == SumValid(df, field, D \ {d})
         IN  IF ValidAt(df, field, d) THEN RAdd(_safe_get(df, field, d), rest) ELSE rest

NoValid(df, field, D) == \A d \in D : ~ValidAt(df, field, d)

(* The quarterly statements the provider delivered in the last fetch; a     *)
(* statement whose access raised counts as an empty table.                  *)
Delivered(property) == IF property \in raised THEN EmptyFrame ELSE Stmts[property]

(* The statements the TTM figures are computed from, and the TTM window:    *)
(* the four most recent periods of the quarterly income statement, or the   *)
(* most recent period of the annual one when the annual statements are used *)
UsedIncome ==
    IF UseQuarterly(Stmts) THEN Stmts.quarterly_financials ELSE Stmts.financials

UsedCashflow ==
    IF UseQuarterly(Stmts) THEN Stmts.quarterly_cashflow ELSE Stmts.cashflow

Window == Latest(Range(UsedIncome.cols), IF UseQuarterly(Stmts) THEN 4 ELSE 1)

(* The quarters for which a metric has a valid quarterly observation *)
RevenueQuarters == ValidDates(Delivered("quarterly_financials"), "Total Revenue")

OperatingIncomeQuarters == ValidDates(Delivered("quarterly_financials"), "Operating Income")

FcfQuarters ==
    ValidDates(Delivered("quarterly_cashflow"), "Operating Cash Flow")
    \cap ValidDates(Delivered("quarterly_cashflow"), "Capital Expenditures")

EbitdaQuarters ==
    OperatingIncomeQuarters
    \cap ValidDates(Delivered("quarterly_financials"), "Depreciation And Amortization")

-----------------------------------------------------------------------------
(* C1: the insufficient_data flag of the TTM result is true if and only if  *)
(* the revenue series or the operating-income series has fewer than 3 valid *)
(* quarterly observations.                                                  *)
C1_InsufficientIffUnderThreeQuarters ==
    Called =>
        (ret.insufficient_data
            <=> (Cardinality(RevenueQuarters) < 3
                 \/ Cardinality(OperatingIncomeQuarters) < 3))

(* C2: when the provider supplies no usable data (all statements empty, or  *)
(* the fetch raises), the TTM result has only ticker and insufficient_data  *)
(* populated, and insufficient_data is true.                                *)
OnlyTickerAndFlag(r) ==
    \A f \in DOMAIN r \ {"ticker", "insufficient_data"} : r[f] = None

C2_NoDataGivesFlaggedEmptyResult ==
    (Called /\ (raised # {} \/ Stmts = NoStatements)) =>
        (OnlyTickerAndFlag(ret) /\ ret.insufficient_data = TRUE)

C4_TtmIsSumOfFourLatestValid ==
    (Called /\ raised = {}) =>
        /\ Cardinality(RevenueQuarters) >= 4 =>
              ret.revenue_ttm =
                  SumValid(Stmts.quarterly_financials, "Total Revenue",
                           Latest(RevenueQuarters, 4))
        /\ Cardinality(OperatingIncomeQuarters) >= 4 =>
              ret.operating_income_ttm =
                  SumValid(Stmts.quarterly_financials, "Operating Income",
                           Latest(OperatingIncomeQuarters, 4))

(* C5: with at least 4 but fewer than 8 valid quarterly observations the    *)
(* TTM value is defined and the YoY growth of the metric is None.           *)
C5_NoGrowthUnderEightQuarters ==
    (Called /\ raised = {}) =>
        /\ Cardinality(RevenueQuarters) \in 4..7 =>
              (ret.revenue_ttm # None /\ ret.revenue_growth_yoy = None)
        /\ Cardinality(FcfQuarters) \in 4..7 =>
              (ret.fcf_ttm # None /\ ret.fcf_growth_yoy = None)
        /\ Cardinality(EbitdaQuarters) \in 4..7 =>
              (ret.ebitda_ttm # None /\ ret.ebitda_growth_yoy = None)

(* The income statement holds exactly the quarters 1..8, each with a valid  *)
(* revenue: q1..q8, oldest to newest                                        *)
EightQuarters ==
    /\ UseQuarterly(Stmts)
    /\ Range(Stmts.quarterly_financials.cols) = 1..8
    /\ RevenueQuarters = 1..8

q(d) == _safe_get(Stmts.quarterly_financials, "Total Revenue", d)

(* The revenue scenario of the specification *)
ScenarioRevenue ==
    EightQuarters /\ \A d \in 1..8 : q(d) = R(<<100, 110, 105, 120, 130, 125, 140, 150>>[d])

C7_GrowthRateContract ==
    growth # None =>
        LET r == growth.result
            undefined ==
                growth.current = None \/ growth.previous = None
                \/ growth.previous = R(0)
            c == growth.current[1]
            p == growth.previous[1]
            m == growth.multiplier[1]
        IN  /\ undefined => r = None
            /\ ~undefined =>
                  /\ r = None <=> Abs((c - p) * m) > 10 * Abs(p)
                  /\ r # None => (r[2] > 0 /\ r[1] * p = (c - p) * m * r[2])
            /\ (growth.current = R(120) /\ growth.previous = R(100) /\ m = 1)
                  => r = Norm(2, 10)
            /\ (growth.current = R(80) /\ growth.previous = R(100) /\ m = 1)
                  => r = Norm(0 - 2, 10)

(* 120 against 100 has been computed *)
C7_Witness ==
    /\ growth # None
    /\ growth.current = R(120) /\ growth.previous = R(100)
    /\ growth.multiplier = R(1)
    /\ growth.result = Norm(1, 5)

(* C8: operating_margin_ttm and fcf_margin_ttm are the numerator TTM over   *)
(* revenue_ttm when revenue_ttm is neither None nor 0 and the numerator is  *)
(* not None; both are None when revenue_ttm is None or 0; nothing is ever   *)
(* divided by zero.                                                         *)
C8_MarginsGuardTheDenominator ==
    Called =>
        /\ (ret.revenue_ttm # None /\ ~IsZero(ret.revenue_ttm)) =>
              /\ ret.operating_income_ttm # None =>
                    /\ ret.operating_margin_ttm # None
                    /\ RMul(ret.operating_margin_ttm, ret.revenue_ttm)
                           = ret.operating_income_ttm
              /\ ret.fcf_ttm # None =>
                    /\ ret.fcf_margin_ttm # None
                    /\ RMul(ret.fcf_margin_ttm, ret.revenue_ttm) = ret.fcf_ttm
        /\ (ret.revenue_ttm = None \/ IsZero(ret.revenue_ttm)) =>
              (ret.operating_margin_ttm = None /\ ret.fcf_margin_ttm = None)
        /\ \A f \in {"operating_margin_ttm", "fcf_margin_ttm"} :
              ret[f] # None => ret[f][2] # 0

(* A revenue TTM of exactly zero beside an operating-income TTM *)
C8_Witness ==
    /\ Called
    /\ ret.revenue_ttm = R(0)
    /\ ret.operating_income_ttm # None
    /\ ret.operating_margin_ttm = None

(* C9: debt_to_cash is present exactly when total_debt and                  *)
(* cash_and_equivalents are both present and the cash is not 0, and then    *)
(* equals total_debt / cash_and_equivalents.                                *)
C9_DebtToCashRoundTrip ==
    Called =>
        /\ ret.debt_to_cash # None
              <=> (/\ ret.total_debt # None
                   /\ ret.cash_and_equivalents # None
                   /\ ~IsZero(ret.cash_and_equivalents))
        /\ ret.debt_to_cash # None =>
              /\ ret.debt_to_cash[2] # 0
              /\ RMul(ret.debt_to_cash, ret.cash_and_equivalents) = ret.total_debt

(* A ratio reported from a debt and a cash figure that differ *)
C9_Witness ==
    /\ Called
    /\ ret.debt_to_cash # None
    /\ ret.total_debt # ret.cash_and_equivalents

(* C10: when the balance-sheet call raises and the income-statement and     *)
(* cash-flow calls succeed, the result still has revenue_ttm and fcf_ttm    *)
(* populated, has total_debt and debt_to_cash absent, and its               *)
(* insufficient_data flag follows the revenue and operating-income series.  *)
C10_BalanceFailureKeepsIncomeFigures ==
    (Called /\ raised = {"quarterly_balance_sheet"}) =>
        LET given == Computed(ret.ticker, Stmts, now).ttm
        IN  /\ (given.revenue_ttm # None /\ given.fcf_ttm # None) =>
                  (ret.revenue_ttm = given.revenue_ttm /\ ret.fcf_ttm = given.fcf_ttm)
            /\ ret.total_debt = None
            /\ ret.debt_to_cash = None
            /\ ret.insufficient_data
                  <=> (Cardinality(RevenueQuarters) < 3
                       \/ Cardinality(OperatingIncomeQuarters) < 3)

(* The six series of a FundamentalsSeries *)
SeriesFields ==
    {"revenue_q", "operating_income_q", "operating_margin_q", "fcf_q",
     "fcf_margin_q", "ebitda_q"}

(* C11: whenever a provider access fails, get_fundamentals_data,            *)
(* compute_ttm_metrics and compute_quarterly_series each come back with an  *)
(* empty result for the ticker asked about: no TTM figure and no series    *)
(* point; none of them has an exception for an outcome.                    *)
C11_ProviderFailureGivesEmptyResult ==
    /\ (full # None /\ full.raised # {}) =>
          /\ full.data.ticker = full.ticker
          /\ full.data.series = <<>>
          /\ \A f \in DOMAIN full.data.ttm \ {"insufficient_data"} :
                full.data.ttm[f] = None
    /\ (series # None /\ series.raised # {}) =>
          \A f \in SeriesFields : series.result[f] = <<>>
    /\ (ret # None /\ raised # {}) => OnlyTickerAndFlag(ret)

(* All three have answered a failing provider, for a ticker that has        *)
(* statements on file                                                       *)
C11_Witness ==
    /\ full # None /\ full.raised # {}
    /\ series # None /\ series.raised # {}
    /\ ret # None /\ raised # {}
    /\ ~IsEmpty(provider[full.ticker].quarterly_financials)

(***************************************************************************)
(* C12: the TTM record _compute_ttm_cached returns has no key whose value  *)
(* is None, NaN or an empty sequence, and has every other key of the       *)
(* computed record with its value; compact removes exactly the keys with   *)
(* such a value and keeps the others unchanged, so that                    *)
(* compact({a: None, b: 1, c: [], d: NaN}) = {b: 1}.                       *)
(***************************************************************************)
Kept(d) == {k \in DOMAIN d : k \in ScalarFields \/ (d[k] # None /\ d[k] # NaN /\ d[k] # <<>>)}

C12_Example == [a |-> None, b |-> R(1), c |-> <<>>, d |-> NaN]

C12_CompactedRecordHasNoEmptyValue ==
    /\ response # None =>
          /\ Kept(response.body) = DOMAIN response.body
          /\ DOMAIN response.body = Kept(ret)
          /\ \A k \in DOMAIN response.body : response.body[k] = ret[k]
    /\ compacted # None =>
          /\ DOMAIN compacted.result = Kept(compacted.arg)
          /\ \A k \in DOMAIN compacted.result : compacted.result[k] = compacted.arg[k]
          /\ compacted.arg = C12_Example =>
                (DOMAIN compacted.result = {"b"} /\ compacted.result.b = R(1))

C12_Witness ==
    /\ response # None
    /\ "revenue_ttm" \in DOMAIN response.body
    /\ DOMAIN response.body # DOMAIN ret
    /\ compacted # None
    /\ compacted.arg = C12_Example

(***************************************************************************)
(* C13: a call of a @cached function made while now - inserted_at < ttl    *)
(* for the entry of its key returns the stored value and does not invoke   *)
(* the wrapped function; a call that finds no entry of its key, or one     *)
(* whose ttl has elapsed, invokes the wrapped function exactly once and    *)
(* stores what it returned, with the time of the call; the value of an     *)
(* expired entry is never returned.                                        *)
(***************************************************************************)
inserted_at(e) == e.expires - Ttl * Hour

(* This step is a call of the @cached function with this key *)
CallOf(key) ==
    /\ answer' # None
    /\ answer'.key = key
    /\ <<ttl_cache, calls, answer, uses>>' # <<ttl_cache, calls, answer, uses>>

Live == TTLCache_expire(ttl_cache, now)

(* The unexpired entries this step, a call of a @cached function, evicts *)
Evicted ==
    IF answer' # None /\ ttl_cache' # ttl_cache
    THEN {e \in Range(Live) : e.key \notin KeysOf(ttl_cache')}
    ELSE {}

C14_EvictsLeastRecentlyInserted ==
    /\ [](Len(ttl_cache) <= MaxSize)
    /\ [][\A e \in Evicted, o \in Range(Live) : inserted_at(e) <= inserted_at(o)]_vars

(***************************************************************************)
(* C14, amended: the TTL cache never holds more entries than its maximum,  *)
(* and an insertion that would exceed it evicts, of the entries that have  *)
(* not expired, the one whose key was least recently used by a cached      *)
(* call, a call answered from the cache counting as a use.                 *)
(***************************************************************************)
LastUse(key) == CHOOSE i \in 1..Len(uses) : uses[i] = key

C14_EvictsLeastRecentlyUsed ==
    /\ [](Len(ttl_cache) <= MaxSize)
    /\ [][\A e \in Evicted, o \in Range(Live) : LastUse(e.key) <= LastUse(o.key)]_vars

(* A full cache after an eviction that spared the entry inserted first *)
C14_Witness ==
    /\ Len(ttl_cache) = MaxSize
    /\ answer # None
    /\ ~answer.hit
    /\ now < Ttl * Hour
    /\ \E k \in Range(uses) : k \notin KeysOf(ttl_cache)
    /\ \E i \in 1..Len(ttl_cache) :
          /\ ttl_cache[i].value = 1
          /\ \A j \in 1..Len(ttl_cache) : ttl_cache[i].expires <= ttl_cache[j].expires
          /\ \E j \in 1..Len(ttl_cache) : ttl_cache[i].expires < ttl_cache[j].expires

(***************************************************************************)
(* C15: a batch (compare or screener) goes through its tickers in order;   *)
(* a ticker whose processing throws is left out and nothing else changes:  *)
(* every other ticker is processed, and the handler answers 200 with a     *)
(* result.                                                                 *)
(***************************************************************************)
(* The tickers of the last batch, as asked *)
Asked == IF response.endpoint = "compare" THEN response.tickers
         ELSE response.request.universe

(* Those whose processing did not throw, upper-cased, in the order asked *)
Survivors ==
    LET at == SelectSeq([i \in 1..Len(Asked) |-> i],
                        LAMBDA i : response.fates[i] # "throws")
    IN  [j \in 1..Len(at) |-> upper(Asked[at[j]])]

(* How often ticker t occurs in a list of tickers / of records *)
Times(t, tickers) == Cardinality({i \in 1..Len(tickers) : tickers[i] = t})

TimesIn(t, records) == Cardinality({i \in 1..Len(records) : records[i].ticker = t})

C15_ThrowingTickerIsOnlyOmitted ==
    (response # None /\ Len(Asked) > 0) =>
        /\ response.status = 200
        /\ response.endpoint = "compare" =>
              \A t \in RouterTickers : TimesIn(t, response.body) = Times(t, Survivors)
        /\ response.endpoint = "screener" =>
              /\ response.body.total_screened = Len(Survivors)
              /\ \A t \in RouterTickers :
                    TimesIn(t, response.body.results) <= Times(t, Survivors)
              /\ response.request = NoFilters =>
                    \A t \in RouterTickers :
                        TimesIn(t, response.body.results) = Times(t, Survivors)

C15_Witness ==
    /\ response # None
    /\ response.endpoint = "compare"
    /\ Len(Asked) = 2
    /\ response.fates[1] = "throws"
    /\ response.fates[2] = "ok"
    /\ Len(response.body) = 1
    /\ "revenue_ttm" \in DOMAIN response.body[1]

(***************************************************************************)
(* C16: every record in the screener's results has insufficient_data =     *)
(* false and, for each min_* or max_* filter the request sets, has the     *)
(* field the filter is about, with a value that meets the bound; a record  *)
(* with insufficient_data = true is in no result, whatever the filters.    *)
(***************************************************************************)
(* Record r has the field and its value is at least / at most the bound *)
AtLeast(r, field, bound) == field \in DOMAIN r /\ ~RLess(r[field], bound)

AtMost(r, field, bound) == field \in DOMAIN r /\ ~RLess(bound, r[field])

C16_ScreenerKeepsOnlyWhatPassesEveryFilter ==
    (response # None /\ response.endpoint = "screener" /\ response.status = 200) =>
        \A i \in 1..Len(response.body.results) :
            LET r == response.body.results[i]
                request == response.request
            IN  /\ "insufficient_data" \in DOMAIN r
                /\ r.insufficient_data = FALSE
                /\ request.min_revenue_growth_yoy # None =>
                      AtLeast(r, "revenue_growth_yoy", request.min_revenue_growth_yoy)
                /\ request.min_fcf_growth_yoy # None =>
                      AtLeast(r, "fcf_growth_yoy", request.min_fcf_growth_yoy)
                /\ request.min_margin_growth_yoy_pp # None =>
                      AtLeast(r, "margin_growth_yoy_pp", request.min_margin_growth_yoy_pp)
                /\ request.min_ebitda_growth_yoy # None =>
                      AtLeast(r, "ebitda_growth_yoy", request.min_ebitda_growth_yoy)
                /\ request.max_debt_to_cash # None =>
                      AtMost(r, "debt_to_cash", request.max_debt_to_cash)

(* Both tickers screened with a ceiling on debt_to_cash: one is kept, the  *)
(* other, which reports revenue but no debt_to_cash, is not                 *)
C16_Witness ==
    /\ response # None
    /\ response.endpoint = "screener"
    /\ response.request.max_debt_to_cash # None
    /\ response.body.total_screened = 2
    /\ Len(response.body.results) = 1
    /\ response.body.results[1].ticker = "AAPL"
    /\ \E e \in Range(ttl_cache) :
          /\ e.value.ticker = "MSFT"
          /\ "revenue_ttm" \in DOMAIN e.value
          /\ "debt_to_cash" \notin DOMAIN e.value

(***************************************************************************)
(* C17: in every metric series compute_quarterly_series returns, the       *)
(* dates of the points are strictly ascending (so no date occurs twice)    *)
(* and no point has a value that is None or NaN.                           *)
(***************************************************************************)
C17_SeriesAscendingWithoutNulls ==
    series # None =>
        \A f \in SeriesFields :
            LET points == series.result[f]
            IN  /\ \A i \in 1..(Len(points) - 1) : points[i].date < points[i + 1].date
                /\ \A i \in 1..Len(points) :
                      points[i].value # None /\ points[i].value # NaN

(***************************************************************************)
(* C18: for a ticker with four quarters of income and cash-flow statements *)
(* on file, compute_ttm_metrics(ticker) returns a FundamentalsTTM whose    *)
(* ticker is the ticker asked for and whose insufficient_data is false.    *)
(***************************************************************************)
FourQuarters(ticker) ==
    /\ Len(provider[ticker].quarterly_financials.cols) = 4
    /\ Len(provider[ticker].quarterly_cashflow.cols) = 4

(* The last @cached call ran compute_ttm_metrics for this ticker: ret is   *)
(* what it returned                                                         *)
Computing(ticker) ==
    /\ answer # None
    /\ ~answer.hit
    /\ answer.key = cache_key("_compute_ttm_cached", ticker)

C18_FourQuartersGiveSufficientData ==
    \A ticker \in RouterTickers :
        (Computing(ticker) /\ FourQuarters(ticker)) =>
            /\ ret.ticker = ticker
            /\ ret.insufficient_data = FALSE

C18_Witness ==
    /\ Computing("AAPL")
    /\ FourQuarters("AAPL")
    /\ ret.revenue_ttm = R(435)
    /\ \E e \in Range(ttl_cache) : e.value.ticker = "MSFT"

(***************************************************************************)
(* C19: when the revenue or the operating income has no valid observation  *)
(* in the statements used, only the fields computed from it are None:      *)
(* total_debt, cash_and_equivalents and net_debt are what the balance      *)
(* sheet gives, and the TTM value of the other of the two metrics is the   *)
(* sum of its valid observations in the window.                            *)
(***************************************************************************)
UsedBalance ==
    IF UseQuarterly(Stmts) THEN Stmts.quarterly_balance_sheet ELSE Stmts.balance_sheet

C19_MissingLineItemLeavesOtherFieldsAlone ==
    (/\ Called
     /\ raised = {}
     /\ ~IsEmpty(UsedIncome)
     /\ \/ NoValid(UsedIncome, "Total Revenue", Window)
        \/ NoValid(UsedIncome, "Operating Income", Window)) =>
        LET debt == _calculate_debt_metrics(UsedBalance)
        IN  /\ ret.total_debt = debt.total_debt
            /\ ret.cash_and_equivalents = debt.cash_and_equivalents
            /\ ret.net_debt = debt.net_debt
            /\ ~NoValid(UsedIncome, "Operating Income", Window) =>
                  ret.operating_income_ttm = SumValid(UsedIncome, "Operating Income", Window)
            /\ ~NoValid(UsedIncome, "Total Revenue", Window) =>
                  ret.revenue_ttm = SumValid(UsedIncome, "Total Revenue", Window)

(***************************************************************************)
(* C20: the free cash flow of a period is OCF - |CapEx| of that period     *)
(* when both are available, whatever the sign capex is reported with, and  *)
(* is the OCF alone when only the operating cash flow is available; the    *)
(* TTM free cash flow is the sum of these over the TTM window.             *)
(***************************************************************************)
(* The free cash flow of period d of cash-flow statement cf, as claimed *)
FcfAt(cf, d) ==
    LET ocf == _safe_get(cf, "Operating Cash Flow", d)
        capex == _safe_get(cf, "Capital Expenditures", d)
    IN  IF capex # None THEN RSub(ocf, RAbs(capex)) ELSE ocf

RECURSIVE FcfOver(_, _)
FcfOver(cf, D) ==
    IF D = {} THEN R(0)
    ELSE LET d == CHOOSE x \in D : TRUE
         IN  RAdd(FcfAt(cf, d), FcfOver(cf, D \ {d}))

(* Every period of the set has a valid operating cash flow in cf *)
OcfThroughout(cf, D) == \A d \in D : ValidAt(cf, "Operating Cash Flow", d)

C20_FcfIsOcfLessAbsCapex ==
    /\ (series # None /\ series.raised = {}
        /\ UseQuarterly(provider[series.ticker])) =>
          LET cf == provider[series.ticker].quarterly_cashflow
              points == series.result.fcf_q
          IN  \A i \in 1..Len(points) :
                  ValidAt(cf, "Operating Cash Flow", points[i].date) =>
                      points[i].value = FcfAt(cf, points[i].date)
    /\ (Called /\ raised = {} /\ UseQuarterly(Stmts) /\ ret.revenue_ttm # None
        /\ OcfThroughout(UsedCashflow, Window)) =>
          ret.fcf_ttm = FcfOver(UsedCashflow, Window)

(***************************************************************************)
(* C21: total_debt is the single total-debt line of the balance sheet when *)
(* it has one; only without that line is it short-term plus long-term      *)
(* debt, a missing side counting as zero when the other side is present,   *)
(* and None when neither is present.                                       *)
(***************************************************************************)
(* The valid observation of the line `label` in the latest column of the   *)
(* balance sheet, None without one                                         *)
LineAt(balance, label) ==
    LET d == CHOOSE x \in Range(balance.cols) : \A y \in Range(balance.cols) : y <= x
        rows == {l \in Range(balance.index) :
                    /\ Lower(l) = Lower(label)
                    /\ NotNa(balance.cell[l][d])
                    /\ ~IsZero(balance.cell[l][d])}
    IN  IF rows = {} THEN None ELSE balance.cell[CHOOSE l \in rows : TRUE][d]

(* total_debt as the claim words it *)
ClaimedTotalDebt(balance) ==
    IF IsEmpty(balance) THEN None
    ELSE LET total == LineAt(balance, "Total Debt")
             short == LineAt(balance, "Current Debt")
             long == LineAt(balance, "Long Term Debt")
         IN  IF total # None THEN total
             ELSE IF short = None /\ long = None THEN None
             ELSE RAdd(IF short = None THEN R(0) ELSE short,
                       IF long = None THEN R(0) ELSE long)

C21_TotalDebtPrefersTheTotalDebtLine ==
    (Called /\ raised = {} /\ ret.revenue_ttm # None) =>
        ret.total_debt = ClaimedTotalDebt(UsedBalance)

(* The same without a total-debt line on the balance sheet *)
C21_SumWithoutTotalDebtLine ==
    (Called /\ raised = {} /\ ret.revenue_ttm # None
     /\ (IsEmpty(UsedBalance) \/ LineAt(UsedBalance, "Total Debt") = None)) =>
        ret.total_debt = ClaimedTotalDebt(UsedBalance)

(***************************************************************************)
(* C22: margin_growth_yoy_pp is None unless the operating-income and the   *)
(* revenue series both have at least 8 observations, and otherwise is      *)
(* (operating margin of the latest 4 quarters - operating margin of the    *)
(* 4 quarters before them) * 100, in percentage points.                    *)
(***************************************************************************)
(* The operating margin over the quarters D of the income statement *)
MarginOver(income, D) ==
    RDiv(SumValid(income, "Operating Income", D), SumValid(income, "Total Revenue", D))

(* margin_growth_yoy_pp as the claim words it *)
ClaimedMarginGrowth(income) ==
    LET dates == Range(income.cols)
        latest == Latest(dates, 4)
        before == Latest(dates, 8) \ latest
    IN  IF /\ Cardinality(ValidDates(income, "Operating Income")) >= 8
           /\ Cardinality(ValidDates(income, "Total Revenue")) >= 8
           /\ ~IsZero(SumValid(income, "Total Revenue", latest))
           /\ ~IsZero(SumValid(income, "Total Revenue", before))
        THEN RMul(RSub(MarginOver(income, latest), MarginOver(income, before)), R(100))
        ELSE None

C22_MarginGrowthOverFourQuarterWindows ==
    (Called /\ raised = {} /\ UseQuarterly(Stmts) /\ ret.revenue_ttm # None) =>
        ret.margin_growth_yoy_pp = ClaimedMarginGrowth(UsedIncome)

(***************************************************************************)
(* C23: resolving a line item against a table tries the exact primary      *)
(* label, then each alias exactly in priority order, then the same list    *)
(* ignoring case; the first label that matches determines the whole        *)
(* series, and no match gives an empty result, not an error.               *)
(***************************************************************************)
(* The elements of the sequence s satisfying Test, in order *)
Those(s, Test(_)) == SelectSeq(s, Test)

(* The rows of table df the claim resolves field to: none or one *)
ClaimedLabel(df, field) ==
    LET exact == Those(FieldVariants(field), LAMBDA v : v \in Range(df.index))
        loose == Those(FieldVariants(field),
                     LAMBDA v : \E idx \in Range(df.index) : Lower(idx) = Lower(v))
    IN  IF exact # <<>> THEN <<Head(exact)>>
        ELSE IF loose = <<>> THEN <<>>
        ELSE <<Head(Those(df.index, LAMBDA idx : Lower(idx) = Lower(Head(loose))))>>

(* The observation of the resolved series at period d *)
ClaimedValue(df, field, d) ==
    LET label == ClaimedLabel(df, field)
    IN  IF label = <<>> THEN None
        ELSE IF NotNa(df.cell[label[1]][d]) /\ ~IsZero(df.cell[label[1]][d])
        THEN df.cell[label[1]][d] ELSE None

C23_ResolutionOrderExactAliasesThenCase ==
    (looked # None /\ ~IsEmpty(looked.df) /\ looked.period \in Range(looked.df.cols)) =>
        looked.value = ClaimedValue(looked.df, looked.field, looked.period)

(***************************************************************************)
(* C24: on a cache miss each of the three quarterly statements (income,    *)
(* cash flow, balance sheet) is asked of the provider exactly once, and    *)
(* at most three provider round-trips are made.                            *)
(***************************************************************************)
(* A call that missed the cache has returned *)
MissReturned == fetching = <<>> /\ full # None /\ accessed # <<>>

(* How often statement p was asked for in the last miss *)
TimesAccessed(p) == Cardinality({i \in 1..Len(accessed) : accessed[i] = p})

QuarterlyStatements ==
    {"quarterly_financials", "quarterly_cashflow", "quarterly_balance_sheet"}

C24_ThreeRoundTripsPerMiss ==
    MissReturned =>
        /\ Len(accessed) <= 3
        /\ \A p \in QuarterlyStatements : TimesAccessed(p) = 1

(* C24 as the code has it: a miss asks for the three quarterly and the     *)
(* three annual statements, each at most once and in that order, so at     *)
(* most six round-trips are made; each is asked exactly once when no read  *)
(* fails, and a failed read is the last one of the miss.                   *)
C24_SixStatementsEachAtMostOnce ==
    /\ Len(accessed) <= 6
    /\ \A p \in Properties : TimesAccessed(p) <= 1
    /\ MissReturned =>
          /\ full.raised = {} => \A p \in Properties : TimesAccessed(p) = 1
          /\ full.raised # {} => full.raised = {accessed[Len(accessed)]}

C24_Witness ==
    /\ MissReturned
    /\ full.raised = {}
    /\ Len(accessed) = 6
    /\ full.data.ttm.revenue_ttm # None

(***************************************************************************)
(* C25: the wrapper's membership test and read, and its compute and        *)
(* store, act atomically on the shared TTL cache: in every interleaving of *)
(* calls with each other and with expiry, eviction and clear_cache, no     *)
(* call fails because the entry it found present was gone when it read it. *)
(***************************************************************************)
C25_NoCallLosesTheEntryItFound ==
    \A t \in DOMAIN running : running[t].error # "KeyError"

-----------------------------------------------------------------------------
(* C26: after the whole TTL cache is cleared, the next request for any     *)
(* ticker asks the provider again, so it cannot return a result computed   *)
(* from data fetched before the clear.                                     *)
IsRequest(r) == r # None /\ r.kind # "clear"

IsClear(r) == r # None /\ r.kind = "clear"

C26_RequestAfterClearAsksProvider ==
    [][(IsClear(last_request) /\ IsRequest(last_request'))
         => (last_request'.asked /\ last_request'.fetched = last_request'.at)]_vars

-----------------------------------------------------------------------------
(* C27: a provider failure is not memoized: when a request has asked the   *)
(* provider, the fetch has failed and the empty result has been returned,  *)
(* the next request for the same ticker asks the provider again.           *)
C27_FailureIsAskedAgain ==
    [][(/\ IsRequest(last_request)
        /\ last_request.asked
        /\ last_request.failed
        /\ IsRequest(last_request')
        /\ last_request'.ticker = last_request.ticker)
         => last_request'.asked]_vars

-----------------------------------------------------------------------------
(* C28: _safe_get(table, field, period) only returns a value taken from    *)
(* the column of the requested period; when the table has no column for    *)
(* that period it returns None.                                            *)
C28_ValueOnlyFromRequestedPeriod ==
    (looked # None /\ looked.value # None)
      => /\ looked.period \in Range(looked.df.cols)
         /\ \E row \in Range(looked.df.index) :
               looked.df.cell[row][looked.period] = looked.value

-----------------------------------------------------------------------------
(* C30: a malformed batch request (compare_fundamentals with no ticker or  *)
(* more than 20, screen_fundamentals with a universe of more than 500)     *)
(* ends with status 400, not 500, and processes no ticker.                 *)
Malformed(r) ==
    \/ r.endpoint = "compare"
       /\ (Len(r.tickers) = 0 \/ Len(r.tickers) > CompareLimit)
    \/ r.endpoint = "screener" /\ Len(r.request.universe) > UniverseLimit

C30_MalformedBatchIsClientError ==
    (response # None /\ Malformed(response))
      => (response.status = 400 /\ response.body = None)

-----------------------------------------------------------------------------
(* C29: every result returned by a cached pipeline function was derived    *)
(* from provider data fetched less than one cache TTL (6 hours) before the *)
(* moment it is returned.                                                  *)
C29_ResultYoungerThanTtl ==
    IsRequest(last_request)
      => last_request.at - last_request.fetched < Ttl * Hour

=============================================================================
